---------------------------- MODULE Spec2Model ----------------------------
(***************************************************************************)
(* MarketScout: the screening and reporting pipeline.                      *)
(*                                                                         *)
(*   src/run_screener.py        send_telegram_message and its helpers      *)
(*   src/screener/screener.py   calculate_percent_change, the screen_*     *)
(*                              functions and the run_*_screener loops     *)
(*                                                                         *)
(* A text is a sequence of one-character strings.  Python's 0-based,       *)
(* half-open indexing is kept in the operators that model string methods.  *)
(***************************************************************************)
EXTENDS Integers, Sequences, FiniteSets, TLC

VARIABLES
    page,         \* send_telegram_message: the argument `text` as passed in
    text,         \* send_telegram_message: the local `text`, the part not yet cut
    chunk_count,  \* send_telegram_message: the local `chunk_count`
    posts,        \* the requests.post calls made so far, in order
    send_state,   \* "running" in the while loop, "returned", or "raised"
    screen_call,  \* one call of a screen_* function: its arguments and what
                  \* the providers answer during it
    screen_ret,   \* what that call returned, once it has
    run_config,   \* main: `config`, as load_config returned it
    stocks_only,  \* main: `stocks_only`, read from the environment
    pc,           \* main: the loop or statement the run has reached
    exchange_idx, \* run_screener: position of `exchange` in `exchanges`
    symbols,      \* run_screener: `symbols` of the exchange being scanned
    idx,          \* position of `symbol` or `item` in the list being looped
    seen_symbols, \* run_screener: `seen_symbols`
    results,      \* run_screener: `all_results`; main: `results`
    crypto_results,     \* run_crypto_screener: `results`
    forex_results,      \* run_forex_screener: `results`
    commodity_results,  \* run_commodity_screener: `results`
    etf_results,        \* run_etf_screener: `results`
    all_results,  \* main: `all_results`
    scanned,      \* the lists get_exchange_symbols returned so far, in order
    fetch_log,    \* the ticker.history calls made so far, in order
    fn_call,      \* one call of calculate_percent_change or one iteration of
                  \* get_indices_snapshot: its arguments and the provider's answer
    fn_ret,       \* what that call gave, once it has
    environ,      \* main: os.environ, the transport credentials in it
    indices_data, \* main: `indices_data`
    message1,     \* main: `message1`
    message2,     \* main: `message2`
    files,        \* the report and chart files that exist on disk
    charts,       \* main: `charts`
    media_posts,  \* the sendMediaGroup requests made so far, in order
    market,       \* what the data providers can answer during the run
    caught,       \* the exceptions an except clause has caught so far
    log           \* the error lines printed so far

sendVars == <<page, text, chunk_count, posts, send_state>>

screenVars == <<screen_call, screen_ret>>

runVars ==
    <<run_config, stocks_only, pc, exchange_idx, symbols, idx, seen_symbols,
      results, crypto_results, forex_results, commodity_results, etf_results,
      all_results, scanned, fetch_log>>

fnVars == <<fn_call, fn_ret>>

mainData ==
    <<environ, indices_data, message1, message2, files, charts, media_posts,
      market>>

mainVars == <<mainData, caught, log>>

vars == <<sendVars, screenVars, runVars, fnVars, mainVars>>

\* Python's None, and the value of a variable no call has set
None == [none |-> TRUE]

\* what a provider call comes to: an exception, or the value it returns
Raised == [raised |-> TRUE, value |-> <<>>]

Returned(v) == [raised |-> FALSE, value |-> v]

\* a call that has not returned yet
Pending == [pending |-> TRUE]

\* an exception caught by the except clause of `where`, raised on `symbol`
Failure(where, symbol) == [where |-> where, symbol |-> symbol]

\* whether the except clause that caught the failure prints a line: all do
\* but the one around ticker.info in screen_stock, which is `pass`
Printed(failure) == failure.where # "screen_stock"

\* the exceptions and the printed lines after the except clauses caught
\* `failures`
Catch(failures) ==
    /\ caught' = caught \o failures
    /\ log' = log \o SelectSeq(failures, Printed)

\* fetch_stock_data: `except Exception as e: print(...)`
FetchFailure(symbol, response) ==
    IF response.raised THEN <<Failure("fetch_stock_data", symbol)>> ELSE <<>>

\* screen_stock: `except Exception: pass` around ticker.info, which is
\* reached only by a stock that passed
InfoFailure(symbol, result, info) ==
    IF result # None /\ info.raised
    THEN <<Failure("screen_stock", symbol)>> ELSE <<>>

\* no run of main is under way
RunIdle ==
    /\ run_config = None
    /\ stocks_only = FALSE
    /\ pc = "idle"
    /\ exchange_idx = 0
    /\ symbols = <<>>
    /\ idx = 0
    /\ seen_symbols = {}
    /\ results = <<>>
    /\ crypto_results = <<>>
    /\ forex_results = <<>>
    /\ commodity_results = <<>>
    /\ etf_results = <<>>
    /\ all_results = <<>>
    /\ scanned = <<>>
    /\ fetch_log = <<>>

\* no call of send_telegram_message is under way
SendIdle ==
    /\ page = <<>>
    /\ text = <<>>
    /\ chunk_count = 0
    /\ posts = <<>>
    /\ send_state = "idle"

\* no single screen_* call is under way
ScreenIdle == screen_call = None /\ screen_ret = None

\* no single call of calculate_percent_change or get_indices_snapshot
FnIdle == fn_call = None /\ fn_ret = None

\* main has not got past its screening
MainIdle ==
    /\ environ = None
    /\ indices_data = <<>>
    /\ message1 = <<>>
    /\ message2 = <<>>
    /\ files = {}
    /\ charts = <<>>
    /\ media_posts = <<>>
    /\ market = "any"
    /\ caught = <<>>
    /\ log = <<>>

-----------------------------------------------------------------------------
(* Python string methods on sequences of characters                        *)

NL == "\n"

Min(a, b) == IF a < b THEN a ELSE b

\* s[lo:hi] for 0 <= lo, 0 <= hi
Slice(s, lo, hi) == SubSeq(s, lo + 1, Min(hi, Len(s)))

\* s[lo:]
SliceFrom(s, lo) == SubSeq(s, lo + 1, Len(s))

\* s.rfind(ch): the 0-based index of the last ch in s, -1 when there is none
RFind(s, ch) ==
    IF \E i \in 1..Len(s) : s[i] = ch
    THEN (CHOOSE i \in 1..Len(s) :
              s[i] = ch /\ \A j \in (i + 1)..Len(s) : s[j] # ch) - 1
    ELSE -1

\* s.lstrip("\n")
LStripNL(s) ==
    IF \A i \in 1..Len(s) : s[i] = NL
    THEN <<>>
    ELSE LET first == CHOOSE i \in 1..Len(s) :
                          s[i] # NL /\ \A j \in 1..(i - 1) : s[j] = NL
         IN  SubSeq(s, first, Len(s))

Whitespace == {" ", "\t", NL}

\* str.strip()
strip(s) ==
    LET keep == {i \in 1..Len(s) : s[i] \notin Whitespace}
    IN  IF keep = {} THEN <<>>
        ELSE SubSeq(s, CHOOSE i \in keep : \A j \in keep : i <= j,
                       CHOOSE i \in keep : \A j \in keep : i >= j)

\* the concatenation of the sequences ss[lo], ..., ss[hi]
RECURSIVE Flatten(_, _, _)
Flatten(ss, lo, hi) ==
    IF lo > hi THEN <<>>
    ELSE IF lo = hi THEN ss[lo]
    ELSE LET mid == (lo + hi) \div 2
         IN  Flatten(ss, lo, mid) \o Flatten(ss, mid + 1, hi)

\* whether pat occurs in s at 1-based position i <= Len(s) - Len(pat) + 1
OccursAt(s, pat, i) == \A k \in 1..Len(pat) : s[i + k - 1] = pat[k]

\* s.replace(pat, rep), for a pattern no two occurrences of which overlap
\* (each pattern below holds its first character once): the stretches of s
\* between the occurrences, with rep in place of each occurrence
Replace(s, pat, rep) ==
    LET first == pat[1]
        last == Len(s) - Len(pat) + 1
        starts == {i \in 1..last : s[i] = first /\ OccursAt(s, pat, i)}
        m == Cardinality(starts)
        nth(k) == CHOOSE p \in starts :
                      Cardinality({q \in starts : q < p}) = k - 1
        from(k) == IF k = 1 THEN 1 ELSE nth(k - 1) + Len(pat)
        upto(k) == IF k = m + 1 THEN Len(s) ELSE nth(k) - 1
        piece == [k \in 1..(2 * m + 1) |->
                     IF k % 2 = 1
                     THEN SubSeq(s, from((k + 1) \div 2), upto((k + 1) \div 2))
                     ELSE rep]
    IN  IF starts = {} THEN s ELSE Flatten(piece, 1, 2 * m + 1)

-----------------------------------------------------------------------------
(* src/run_screener.py: the Telegram text transport                        *)

TELEGRAM_MAX_MESSAGE_LENGTH == 4096

SafetyMargin == 100

max_len == TELEGRAM_MAX_MESSAGE_LENGTH - SafetyMargin

EntityWindow == 20

\* _strip_html_to_plain
_strip_html_to_plain(s) ==
    LET s1 == Replace(s, <<"<", "/", "b", ">">>, <<>>)
        s2 == Replace(s1, <<"<", "b", ">">>, <<>>)
        s3 == Replace(s2, <<"&", "a", "m", "p", ";">>, <<"&">>)
        s4 == Replace(s3, <<"&", "l", "t", ";">>, <<"<">>)
    IN  Replace(s4, <<"&", "g", "t", ";">>, <<">">>)

\* html.escape(s), quote=True as _append_section_block calls it: '&' first,
\* then '<', '>', '"' and the apostrophe
html_escape(s) ==
    LET s1 == Replace(s, <<"&">>, <<"&", "a", "m", "p", ";">>)
        s2 == Replace(s1, <<"<">>, <<"&", "l", "t", ";">>)
        s3 == Replace(s2, <<">">>, <<"&", "g", "t", ";">>)
        s4 == Replace(s3, <<"\"">>, <<"&", "q", "u", "o", "t", ";">>)
    IN  Replace(s4, <<"'">>, <<"&", "#", "x", "2", "7", ";">>)

\* a newline cut that keeps the newline in the text as well
RestAfterNewline_KeepNewline(t, last_newline) == SliceFrom(t, last_newline)

\* what the text left after a newline cut becomes
RestAfterNewline(t, last_newline) == LStripNL(SliceFrom(t, last_newline + 1))

\* cut rules without the one that steps back to the last '&'
Split_NoEntityRule(t) ==
    LET chunk == Slice(t, 0, max_len)
        last_newline == RFind(chunk, NL)
    IN  IF last_newline > max_len \div 2
        THEN [chunk |-> Slice(chunk, 0, last_newline + 1),
              rest  |-> RestAfterNewline(t, last_newline)]
        ELSE [chunk |-> chunk, rest |-> SliceFrom(t, max_len)]

\* cut rules that cut at the last newline wherever it lies
Split_AnyNewline(t) ==
    LET chunk == Slice(t, 0, max_len)
        last_newline == RFind(chunk, NL)
        last_amp == RFind(chunk, "&")
    IN  IF last_newline > 0
        THEN [chunk |-> Slice(chunk, 0, last_newline + 1),
              rest  |-> RestAfterNewline(t, last_newline)]
        ELSE IF last_amp > max_len - EntityWindow /\ last_amp > 0
        THEN [chunk |-> Slice(chunk, 0, last_amp),
              rest  |-> SliceFrom(t, last_amp)]
        ELSE [chunk |-> chunk, rest |-> SliceFrom(t, max_len)]

\* cut rules that step back to the last '&' wherever it lies
Split_AnyAmp(t) ==
    LET chunk == Slice(t, 0, max_len)
        last_newline == RFind(chunk, NL)
        last_amp == RFind(chunk, "&")
    IN  IF last_newline > max_len \div 2
        THEN [chunk |-> Slice(chunk, 0, last_newline + 1),
              rest  |-> RestAfterNewline(t, last_newline)]
        ELSE IF last_amp >= 0
        THEN [chunk |-> Slice(chunk, 0, last_amp),
              rest  |-> SliceFrom(t, last_amp)]
        ELSE [chunk |-> chunk, rest |-> SliceFrom(t, max_len)]

\* the else branch of the loop body: the three cut rules on a text longer
\* than max_len
Split(t) ==
    LET chunk == Slice(t, 0, max_len)
        last_newline == RFind(chunk, NL)
        last_amp == RFind(chunk, "&")
    IN  IF last_newline > max_len \div 2
        THEN [chunk |-> Slice(chunk, 0, last_newline + 1),
              rest  |-> RestAfterNewline(t, last_newline)]
        ELSE IF last_amp > max_len - EntityWindow /\ last_amp > 0
        THEN [chunk |-> Slice(chunk, 0, last_amp),
              rest  |-> SliceFrom(t, last_amp)]
        ELSE [chunk |-> chunk, rest |-> SliceFrom(t, max_len)]

\* a loop body that never splits
Cut_NoSplit(t) == [chunk |-> t, rest |-> <<>>]

\* a loop body without the test for a text that fits
Cut_NoFastPath(t) == Split(t)

\* one pass of the while loop up to the send: the chunk cut from t and the
\* text that is left
Cut(t) ==
    IF Len(t) <= max_len THEN [chunk |-> t, rest |-> <<>>] ELSE Split(t)

ClipLimit == 4096

\* the guard after the cut: a chunk longer than 4096 is clipped
Clip(chunk) ==
    IF Len(chunk) > ClipLimit THEN Slice(chunk, 0, ClipLimit) ELSE chunk

\* What one requests.post of _telegram_send_message can come to:
\*   "ok"        a 2xx response
\*   "entities"  HTTP 400 whose body names "entities" (markup rejected)
\*   "http"      any other HTTP error status
\*   "transport" requests raises before a response arrives (timeout,
\*               connection error): no HTTPError
PostOutcomes == {"ok", "entities", "http", "transport"}

\* the payload of the first post of a chunk
HtmlPost(chunk, outcome) ==
    [text |-> chunk, parse_mode |-> "HTML", outcome |-> outcome]

\* the payload of the retry inside the except branch
PlainPost(plain_chunk, outcome) ==
    [text |-> plain_chunk, parse_mode |-> "none", outcome |-> outcome]

\* a send without the plain-text retry
PostsFor_NoRetry(chunk, plain_chunk, o1, o2) == <<HtmlPost(chunk, o1)>>

\* the posts one chunk causes, given the outcome of the first post and of
\* the retry (read only when there is a retry)
PostsFor(chunk, plain_chunk, o1, o2) ==
    IF o1 = "entities"
    THEN <<HtmlPost(chunk, o1), PlainPost(plain_chunk, o2)>>
    ELSE <<HtmlPost(chunk, o1)>>

\* whether the chunk's try statement ends without an exception
Delivered(o1, o2) == o1 = "ok" \/ (o1 = "entities" /\ o2 = "ok")

\* one iteration of `while text:`: cut, clip, count, post, maybe retry
SendChunk ==
    /\ send_state = "running"
    /\ text # <<>>
    /\ LET c == Cut(text)
           chunk == Clip(c.chunk)
           plain == _strip_html_to_plain(chunk)
       IN  /\ text' = c.rest
           /\ chunk_count' = chunk_count + 1
           /\ \E o1 \in PostOutcomes :
                 \E o2 \in (IF o1 = "entities" THEN PostOutcomes ELSE {"ok"}) :
                    /\ posts' = posts \o PostsFor(chunk, plain, o1, o2)
                    /\ send_state' = IF Delivered(o1, o2)
                                     THEN "running" ELSE "raised"
                    /\ Catch(IF o1 = "entities"
                             THEN <<Failure("send_telegram_message",
                                            "sendMessage")>>
                             ELSE <<>>)
    /\ UNCHANGED <<page, screenVars, runVars, fnVars, mainData>>

\* `while text:` finds the text empty and the function returns
SendReturn ==
    /\ send_state = "running"
    /\ text = <<>>
    /\ send_state' = "returned"
    /\ UNCHANGED <<page, text, chunk_count, posts, screenVars, runVars, fnVars, mainVars>>

-----------------------------------------------------------------------------
(* src/screener/screener.py: percentage changes and the screen_* functions *)
(*                                                                         *)
(* A price series (the DataFrame) is a sequence of rows, oldest first,     *)
(* each with a Close and a Volume.  Closes are whole dollars.  A           *)
(* percentage is the exact fraction n / d of a percent, and a threshold    *)
(* is a whole number of hundredths of a percent (500 is 5.0).              *)

Abs(x) == IF x < 0 THEN -x ELSE x

\* dict.get(key, default)
Get(dict, key, default) == IF key \in DOMAIN dict THEN dict[key] ELSE default

fetch_stock_data_StaleOnFailure(response) ==
    IF response.raised
    THEN [i \in 1..6 |-> [Close  |-> IF i = 6 THEN 159 ELSE 141,
                          Volume |-> 10000000]]
    ELSE IF response.value = <<>> THEN None
    ELSE response.value

\* fetch_stock_data: None when the provider raises or the frame is empty
fetch_stock_data(response) ==
    IF response.raised THEN None
    ELSE IF response.value = <<>> THEN None
    ELSE response.value

\* a percent change that reports 0 for a zero reference price
calculate_percent_change_ZeroForZero(data, days) ==
    IF Len(data) < days + 1 THEN None
    ELSE LET current_price == data[Len(data)].Close
             past_price == data[Len(data) - days].Close
         IN  IF past_price = 0 THEN [n |-> 0, d |-> 1]
             ELSE [n |-> (current_price - past_price) * 100, d |-> past_price]

calculate_percent_change_Ratio(data, days) ==
    IF Len(data) < days + 1 THEN None
    ELSE LET current_price == data[Len(data)].Close
             past_price == data[Len(data) - days].Close
         IN  IF past_price = 0 THEN None
             ELSE [n |-> current_price - past_price, d |-> past_price]

\* calculate_percent_change
calculate_percent_change(data, days) ==
    IF Len(data) < days + 1 THEN None
    ELSE LET current_price == data[Len(data)].Close
             past_price == data[Len(data) - days].Close
         IN  IF past_price = 0 THEN None
             ELSE [n |-> (current_price - past_price) * 100, d |-> past_price]

\* the six changes every screen_* function computes after its fetch
Changes(data) ==
    [one_day    |-> calculate_percent_change(data, 1),
     one_week   |-> calculate_percent_change(data, Min(5, Len(data) - 1)),
     one_month  |-> calculate_percent_change(data, Min(20, Len(data) - 1)),
     one_6m     |-> calculate_percent_change(data, Min(126, Len(data) - 1)),
     one_year   |-> calculate_percent_change(data, Min(252, Len(data) - 1)),
     three_year |-> calculate_percent_change(data, Min(756, Len(data) - 1))]

AbsAtLeast_Strict(change, threshold) ==
    Abs(change.n) * 100 > threshold * Abs(change.d)

\* abs(change) >= threshold
AbsAtLeast(change, threshold) ==
    Abs(change.n) * 100 >= threshold * Abs(change.d)

\* round(x, 2), to the nearest hundredth, a tie to the even one
Round2(x) ==
    LET a == Abs(x.n) * 100
        b == Abs(x.d)
        q == a \div b
        r == a % b
        up == 2 * r > b \/ (2 * r = b /\ q % 2 = 1)
        m == IF up THEN q + 1 ELSE q
    IN  [n |-> IF (x.n < 0) = (x.d < 0) THEN m ELSE -m, d |-> 100]

\* round(change, 2) if change is not None else None
Round2OrNone(x) == IF x = None THEN None ELSE Round2(x)

\* an accept test that wants every horizon to pass
AnyPass_All(f) == f.passes_day /\ f.passes_week /\ f.passes_month

\* the three pass flags of a screen_* function
PassFlags(ch, thresholds) ==
    [passes_day   |-> AbsAtLeast(ch.one_day, thresholds.one_day_pct_abs),
     passes_week  |-> AbsAtLeast(ch.one_week, thresholds.one_week_pct_abs),
     passes_month |-> /\ ch.one_month # None
                      /\ AbsAtLeast(ch.one_month, thresholds.one_month_pct_abs)]

AnyPass(f) == f.passes_day \/ f.passes_week \/ f.passes_month

\* the dict a screen_* function returns: `extra` are the fields that differ
\* from one function to the next (company_name, sector, asset_class)
ResultDict(symbol, extra, data, ch, f) ==
    extra @@
    [symbol         |-> symbol,
     price          |-> data[Len(data)].Close,
     volume         |-> data[Len(data)].Volume,
     one_day_pct    |-> Round2(ch.one_day),
     one_week_pct   |-> Round2(ch.one_week),
     one_month_pct  |-> Round2OrNone(ch.one_month),
     one_6m_pct     |-> Round2OrNone(ch.one_6m),
     one_year_pct   |-> Round2OrNone(ch.one_year),
     three_year_pct |-> Round2OrNone(ch.three_year),
     passes_day     |-> f.passes_day,
     passes_week    |-> f.passes_week,
     passes_month   |-> f.passes_month,
     data           |-> data]

\* the company name and the sector screen_stock takes from ticker.info
CompanyInfo(symbol, info_response) ==
    LET info == info_response.value
    IN  [company_name |->
             IF info_response.raised THEN symbol
             ELSE IF "longName" \in DOMAIN info THEN info.longName
             ELSE IF "shortName" \in DOMAIN info THEN info.shortName
             ELSE symbol,
         sector |->
             IF info_response.raised THEN "Other"
             ELSE IF "sector" \in DOMAIN info /\ info.sector # ""
             THEN info.sector
             ELSE "Other"]

DefaultMinDollarVolume == 1000000000

DefaultMinVolumeContracts == 100000

\* too few rows, or no day or week change
Unscreenable(data) ==
    \/ data = None
    \/ Len(data) < 5
    \/ Changes(data).one_day = None
    \/ Changes(data).one_week = None

\* screen_stock, on what fetch_stock_data and ticker.info give
screen_stock(symbol, config, data, info) ==
    IF Unscreenable(data) THEN None
    ELSE LET thresholds == config.thresholds
             ch == Changes(data)
             current_volume == data[Len(data)].Volume
             current_price == data[Len(data)].Close
             dollar_volume == current_price * current_volume
             f == PassFlags(ch, thresholds)
             passes_volume ==
                 dollar_volume >=
                     Get(thresholds, "min_dollar_volume", DefaultMinDollarVolume)
             passes_price == current_price >= Get(thresholds, "min_price", 0)
         IN  IF passes_volume /\ passes_price /\ AnyPass(f)
             THEN ResultDict(symbol, CompanyInfo(symbol, info), data, ch, f)
             ELSE None

\* screen_crypto: the stock thresholds, no volume or price gate
screen_crypto(symbol, name, config, data) ==
    IF Unscreenable(data) THEN None
    ELSE LET thresholds == config.thresholds
             ch == Changes(data)
             f == PassFlags(ch, thresholds)
         IN  IF ~AnyPass(f) THEN None
             ELSE ResultDict(symbol,
                             [company_name |-> name, sector |-> "Crypto"],
                             data, ch, f)

DefaultForexThresholds ==
    [one_day_pct_abs |-> 50, one_week_pct_abs |-> 100, one_month_pct_abs |-> 300]

\* screen_forex
screen_forex(symbol, name, config, data) ==
    IF Unscreenable(data) THEN None
    ELSE LET thresholds ==
                 Get(config, "forex_thresholds", DefaultForexThresholds)
             ch == Changes(data)
             f == PassFlags(ch, thresholds)
         IN  IF ~AnyPass(f) THEN None
             ELSE ResultDict(symbol,
                             [company_name |-> name, sector |-> "Forex"],
                             data, ch, f)

DefaultCommodityThresholds ==
    [one_day_pct_abs |-> 200, one_week_pct_abs |-> 500,
     one_month_pct_abs |-> 1000,
     min_volume_contracts |-> DefaultMinVolumeContracts]

\* a commodity screen that forgets the contract-volume gate
screen_commodity_NoVolumeGate(symbol, name, config, data) ==
    IF Unscreenable(data) THEN None
    ELSE LET thresholds ==
                 Get(config, "commodity_thresholds", DefaultCommodityThresholds)
             ch == Changes(data)
             f == PassFlags(ch, thresholds)
         IN  IF ~AnyPass(f) THEN None
             ELSE ResultDict(symbol,
                             [company_name |-> name, sector |-> "Commodities"],
                             data, ch, f)

\* screen_commodity
screen_commodity(symbol, name, config, data) ==
    IF Unscreenable(data) THEN None
    ELSE LET thresholds ==
                 Get(config, "commodity_thresholds", DefaultCommodityThresholds)
             ch == Changes(data)
             current_volume == data[Len(data)].Volume
             f == PassFlags(ch, thresholds)
             passes_volume ==
                 current_volume >=
                     Get(thresholds, "min_volume_contracts",
                         DefaultMinVolumeContracts)
         IN  IF ~(passes_volume /\ AnyPass(f)) THEN None
             ELSE ResultDict(symbol,
                             [company_name |-> name, sector |-> "Commodities"],
                             data, ch, f)

DefaultEtfThresholds ==
    [one_day_pct_abs |-> 300, one_week_pct_abs |-> 500,
     one_month_pct_abs |-> 1000,
     min_dollar_volume |-> DefaultMinDollarVolume]

\* screen_etf
screen_etf(symbol, name, asset_class, config, data) ==
    IF Unscreenable(data) THEN None
    ELSE LET thresholds == Get(config, "etf_thresholds", DefaultEtfThresholds)
             ch == Changes(data)
             current_price == data[Len(data)].Close
             current_volume == data[Len(data)].Volume
             dollar_volume == current_price * current_volume
             f == PassFlags(ch, thresholds)
             passes_volume ==
                 dollar_volume >=
                     Get(thresholds, "min_dollar_volume", DefaultMinDollarVolume)
         IN  IF ~(passes_volume /\ AnyPass(f)) THEN None
             ELSE ResultDict(symbol,
                             [company_name |-> name, sector |-> "ETFs",
                              asset_class |-> asset_class],
                             data, ch, f)

\* one call of each screen_* function
ScreenStock ==
    /\ screen_ret = Pending
    /\ screen_call.fn = "screen_stock"
    /\ screen_ret' = screen_stock(screen_call.symbol, screen_call.config,
                                  fetch_stock_data(screen_call.response),
                                  screen_call.info)
    /\ UNCHANGED <<screen_call, sendVars, runVars, fnVars, mainVars>>

ScreenCrypto ==
    /\ screen_ret = Pending
    /\ screen_call.fn = "screen_crypto"
    /\ screen_ret' = screen_crypto(screen_call.symbol, screen_call.name,
                                   screen_call.config,
                                   fetch_stock_data(screen_call.response))
    /\ UNCHANGED <<screen_call, sendVars, runVars, fnVars, mainVars>>

ScreenForex ==
    /\ screen_ret = Pending
    /\ screen_call.fn = "screen_forex"
    /\ screen_ret' = screen_forex(screen_call.symbol, screen_call.name,
                                  screen_call.config,
                                  fetch_stock_data(screen_call.response))
    /\ UNCHANGED <<screen_call, sendVars, runVars, fnVars, mainVars>>

ScreenCommodity ==
    /\ screen_ret = Pending
    /\ screen_call.fn = "screen_commodity"
    /\ screen_ret' = screen_commodity(screen_call.symbol, screen_call.name,
                                      screen_call.config,
                                      fetch_stock_data(screen_call.response))
    /\ UNCHANGED <<screen_call, sendVars, runVars, fnVars, mainVars>>

ScreenEtf ==
    /\ screen_ret = Pending
    /\ screen_call.fn = "screen_etf"
    /\ screen_ret' = screen_etf(screen_call.symbol, screen_call.name,
                                screen_call.asset_class, screen_call.config,
                                fetch_stock_data(screen_call.response))
    /\ UNCHANGED <<screen_call, sendVars, runVars, fnVars, mainVars>>

-----------------------------------------------------------------------------
(* The calls the screen_* functions are run on.  A series holds one close  *)
(* for the last row, one for the rows up to a week back, one for the rows  *)
(* up to a month back and one for the older rows, so that each lookback    *)
(* reads a close of its own when the series is long enough.                *)

Closes == {0, 141, 150, 159}

Volumes == {50000, 100000, 10000000}

Lengths == {4, 5, 6, 21}

StepSeries(len, c0, c1, cw, cm, volume) ==
    [i \in 1..len |->
        [Close  |-> IF len - i = 0 THEN c0
                    ELSE IF len - i < 5 THEN c1
                    ELSE IF len - i < 20 THEN cw
                    ELSE cm,
         Volume |-> volume]]

Responses ==
    {Raised, Returned(<<>>)} \cup
    { Returned(StepSeries(len, c0, c1, cw, cm, v)) :
        len \in Lengths, c0 \in Closes, c1 \in Closes, cw \in Closes,
        cm \in Closes, v \in Volumes }

\* config.yaml with only the required keys, every default in force
ConfigDefaults ==
    [thresholds |-> [one_day_pct_abs |-> 500, one_week_pct_abs |-> 1000,
                     one_month_pct_abs |-> 1200]]

\* config.yaml with every optional key set
ConfigFull ==
    [thresholds |-> [one_day_pct_abs |-> 600, one_week_pct_abs |-> 1000,
                     one_month_pct_abs |-> 1200,
                     min_dollar_volume |-> 1000000000, min_price |-> 145],
     forex_thresholds |-> [one_day_pct_abs |-> 600, one_week_pct_abs |-> 700,
                           one_month_pct_abs |-> 1300],
     commodity_thresholds |-> [one_day_pct_abs |-> 600,
                               one_week_pct_abs |-> 1200,
                               one_month_pct_abs |-> 1300,
                               min_volume_contracts |-> 100000],
     etf_thresholds |-> [one_day_pct_abs |-> 700, one_week_pct_abs |-> 1200,
                         one_month_pct_abs |-> 1300,
                         min_dollar_volume |-> 1500000000]]

Configs == {ConfigDefaults, ConfigFull}

\* what ticker.info gives for a stock
Infos ==
    {Raised, Returned([longName |-> "Apple Inc.", sector |-> "Technology"])}

ScreenCalls ==
    { [fn |-> "screen_stock", symbol |-> "AAPL", config |-> c,
       response |-> r, info |-> i] : c \in Configs, r \in Responses, i \in Infos }
    \cup
    { [fn |-> "screen_crypto", symbol |-> "BTC-USD", name |-> "Bitcoin",
       config |-> c, response |-> r] : c \in Configs, r \in Responses }
    \cup
    { [fn |-> "screen_forex", symbol |-> "EURUSD=X", name |-> "EUR/USD",
       config |-> c, response |-> r] : c \in Configs, r \in Responses }
    \cup
    { [fn |-> "screen_commodity", symbol |-> "NG=F", name |-> "Natural Gas",
       config |-> c, response |-> r] : c \in Configs, r \in Responses }
    \cup
    { [fn |-> "screen_etf", symbol |-> "SPY", name |-> "SPDR S&P 500",
       asset_class |-> "Equity", config |-> c, response |-> r] :
       c \in Configs, r \in Responses }

InitScreen ==
    /\ screen_call \in ScreenCalls
    /\ screen_ret = Pending
    /\ SendIdle
    /\ RunIdle
    /\ FnIdle
    /\ MainIdle

NextScreen ==
    ScreenStock \/ ScreenCrypto \/ ScreenForex \/ ScreenCommodity \/ ScreenEtf

SpecScreen == InitScreen /\ [][NextScreen]_vars

-----------------------------------------------------------------------------
(* The texts send_telegram_message is run on: a run of a filler character, *)
(* a separator, and a tail.  The run's length is taken around each         *)
(* threshold of Cut, so that the separator lands on either side of it.     *)

Jitter == 2

Near(n) == (n - Jitter)..(n + Jitter)

Fill(n) == [i \in 1..n |-> "x"]

Amp == <<"&", "a", "m", "p", ";">>

BoldLt == <<"<", "b", ">", "&", "l", "t", ";", "<", "/", "b", ">">>

Apos == <<"&", "#", "x", "2", "7", ";">>

\* lines that, newline included, are all shorter than half of max_len
ShortLines ==
    Fill(max_len \div 2 - 2) \o <<NL>> \o Fill(1000) \o <<NL>> \o BoldLt
        \o <<NL>> \o Fill(1500) \o Apos

Separators ==
    { <<>>, <<NL>>, <<NL, NL>>, <<NL, NL, NL>>, Amp, Apos,
      BoldLt \o <<NL>> }

FirstRuns ==
    {0, 1} \cup Near(max_len \div 2) \cup Near(max_len - EntityWindow)
           \cup Near(max_len)

Tails ==
    { <<>>,
      Fill(2),
      Fill(max_len),
      Fill(max_len \div 2) \o <<NL, NL>> \o Fill(max_len \div 2) \o Amp,
      Fill(max_len) \o BoldLt \o Fill(max_len),
      ShortLines }

Pages ==
    { Fill(n1) \o s1 \o tail :
        n1 \in FirstRuns, s1 \in Separators, tail \in Tails }

\* a call of send_telegram_message on one of `pages`
InitSendWith(pages) ==
    /\ page \in pages
    /\ text = page
    /\ chunk_count = 0
    /\ posts = <<>>
    /\ send_state = "running"
    /\ ScreenIdle
    /\ RunIdle
    /\ FnIdle
    /\ MainIdle

InitSend == InitSendWith(Pages)

\* the pages of the fair specification: the empty text, texts that begin
\* with an entity, texts of one, two and three chunks
FairPages ==
    { Fill(n1) \o s1 \o tail :
        n1 \in {0, 1, max_len - 2, max_len}, s1 \in Separators,
        tail \in { <<>>, Fill(max_len) \o BoldLt \o Fill(max_len),
                   ShortLines } }

NextSend == SendChunk \/ SendReturn

SpecSend == InitSend /\ [][NextSend]_vars

\* a step of `while text:` as the loop's control shows it: an iteration
\* counts a chunk and goes on or raises, the exit returns.  While the call
\* is running one of SendChunk and SendReturn is enabled, so this step is
\* enabled exactly then, and every step of NextSend is one.
LoopStep ==
    /\ send_state = "running"
    /\ \/ chunk_count' = chunk_count + 1 /\ send_state' \in {"running", "raised"}
       \/ chunk_count' = chunk_count /\ send_state' = "returned"

\* the same call; the loop, sequential code, always takes its next step
SpecSendFair ==
    /\ InitSendWith(FairPages)
    /\ [][NextSend]_vars
    /\ WF_<<chunk_count, send_state>>(LoopStep)

-----------------------------------------------------------------------------
(* Properties of send_telegram_message, checked under SpecSend             *)

\* the chunks handed to the endpoint, in order: the texts of the HTML posts
Chunks ==
    LET html == SelectSeq(posts, LAMBDA p : p.parse_mode = "HTML")
    IN  [i \in 1..Len(html) |-> html[i].text]

SentText == Flatten(Chunks, 1, Len(Chunks))

\* the number of newlines page holds from 0-based offset p on, up to the
\* first other character
NewlinesAt(p) ==
    IF \A i \in (p + 1)..Len(page) : page[i] = NL
    THEN Len(page) - p
    ELSE (CHOOSE i \in (p + 1)..Len(page) :
              page[i] # NL /\ \A j \in (p + 1)..(i - 1) : page[j] = NL) - 1 - p

\* chunks k.. lie in page from offset p on, in order, with nothing between
\* two of them but the newlines that directly follow a chunk ending in a
\* newline, and what follows the last of them is tail
RECURSIVE LiesInPage(_, _, _)
LiesInPage(k, p, tail) ==
    IF k > Len(Chunks)
    THEN SliceFrom(page, p) = tail
    ELSE LET c == Chunks[k]
             q == p + Len(c)
             skip == IF c # <<>> /\ c[Len(c)] = NL THEN NewlinesAt(q) ELSE 0
         IN  /\ q <= Len(page)
             /\ Slice(page, p, q) = c
             /\ LiesInPage(k + 1, q + skip, tail)

\* C1 as stated: when send_telegram_message returns, the chunks sent,
\* concatenated in the order sent, are exactly the text passed in.
C1_ConcatenationIsPage == send_state = "returned" => SentText = page

\* C1 as amended: the chunks are consecutive pieces of the text in text
\* order, and the only characters of the text that are in no chunk are
\* newlines directly following a chunk that ends with a newline; at every
\* moment the text still to be cut is what follows them.
C1_ChunksCoverPageButNewlines == LiesInPage(1, 0, text)

\* a run that returned after a newline cut swallowed a newline
C1_Witness ==
    /\ send_state = "returned"
    /\ Len(Chunks) >= 2
    /\ Len(SentText) < Len(page)

\* C2: every text handed to the endpoint, first post or retry, is at most
\* TELEGRAM_MAX_MESSAGE_LENGTH - 100 = 3996 characters long.
C2_ChunkWithinLimit ==
    \A i \in 1..Len(posts) :
        Len(posts[i].text) <= TELEGRAM_MAX_MESSAGE_LENGTH - 100

\* a text longer than the limit whose first chunk, cut by the hard rule, is
\* exactly 3996 characters long and was followed by a shorter one
C2_Witness ==
    /\ Len(page) > TELEGRAM_MAX_MESSAGE_LENGTH - 100
    /\ Len(Chunks) >= 2
    /\ Len(Chunks[1]) = TELEGRAM_MAX_MESSAGE_LENGTH - 100
    /\ Len(Chunks[2]) < Len(Chunks[1])

\* C3 as stated: once send_telegram_message is over, a text of at most
\* max_len characters has made exactly one chunk, the text itself.
C3_ShortTextOneChunk ==
    (send_state # "running" /\ Len(page) <= max_len) => Chunks = <<page>>

\* C3 as amended: a text of 1 to max_len characters makes exactly one
\* chunk, the text itself; the empty text makes none.
C3_NonEmptyShortTextOneChunk ==
    (send_state # "running" /\ Len(page) <= max_len) =>
        Chunks = IF page = <<>> THEN <<>> ELSE <<page>>

\* a text of exactly max_len characters went out as one chunk
C3_Witness ==
    /\ send_state = "returned"
    /\ Len(page) = max_len
    /\ Chunks = <<page>>

\* C4: a post in plain text is the retry of the HTML post just before it,
\* which the endpoint rejected for its markup, and carries that chunk
\* stripped; every such rejection is retried at once; no chunk is posted
\* more than twice; and any other failure, the retry's included, is the
\* last post of the call, which raises.
C4_OnePlainRetry ==
    /\ \A i \in 1..Len(posts) :
          /\ posts[i].parse_mode = "none" =>
                /\ i > 1
                /\ posts[i - 1].parse_mode = "HTML"
                /\ posts[i - 1].outcome = "entities"
                /\ posts[i].text = _strip_html_to_plain(posts[i - 1].text)
          /\ (posts[i].parse_mode = "HTML" /\ posts[i].outcome = "entities") =>
                /\ i < Len(posts)
                /\ posts[i + 1].parse_mode = "none"
          /\ (posts[i].outcome # "ok" /\
                ~(posts[i].parse_mode = "HTML" /\ posts[i].outcome = "entities")) =>
                /\ i = Len(posts)
                /\ send_state = "raised"
    /\ Len(Chunks) = chunk_count
    /\ Len(posts) <= 2 * chunk_count
    /\ send_state = "raised" =>
          (posts # <<>> /\ posts[Len(posts)].outcome # "ok")

\* a chunk with markup was rejected, went out again stripped, was rejected
\* again, and the call raised without a third post
C4_Witness ==
    /\ send_state = "raised"
    /\ Len(posts) >= 2
    /\ LET n == Len(posts)
       IN  /\ posts[n].parse_mode = "none"
           /\ posts[n].outcome = "entities"
           /\ posts[n - 1].outcome = "entities"
           /\ Len(posts[n].text) < Len(posts[n - 1].text)

-----------------------------------------------------------------------------
(* Properties of the screen_* functions, checked under SpecScreen          *)

\* the rows the provider gave for the call (none when it raised)
CallRows == screen_call.response.value

Accepted == screen_ret # Pending /\ screen_ret # None

Rejected == screen_ret = None

\* the close `back` rows before the last one
CloseBack(back) == CallRows[Len(CallRows) - back].Close

LastRow == CallRows[Len(CallRows)]

\* the 1-day change can be computed: there is a row before the last and its
\* close is not zero
DayAvailable == Len(CallRows) >= 2 /\ CloseBack(1) # 0

\* the 1-week change can be computed: the reference row, 5 rows back or the
\* oldest row of a shorter series, has a close that is not zero
WeekAvailable ==
    Len(CallRows) >= 2 /\ CloseBack(Min(5, Len(CallRows) - 1)) # 0

\* the screener gets to its accept test: enough rows, day and week known
Screenable == Len(CallRows) >= 5 /\ DayAvailable /\ WeekAvailable

\* the thresholds the called function reads
CallThresholds ==
    LET c == screen_call.config
    IN  CASE screen_call.fn \in {"screen_stock", "screen_crypto"} ->
                 c.thresholds
          [] screen_call.fn = "screen_forex" ->
                 IF "forex_thresholds" \in DOMAIN c
                 THEN c.forex_thresholds ELSE DefaultForexThresholds
          [] screen_call.fn = "screen_commodity" ->
                 IF "commodity_thresholds" \in DOMAIN c
                 THEN c.commodity_thresholds ELSE DefaultCommodityThresholds
          [] screen_call.fn = "screen_etf" ->
                 IF "etf_thresholds" \in DOMAIN c
                 THEN c.etf_thresholds ELSE DefaultEtfThresholds

\* the liquidity gate of the called function, on the last row
LiquidityGate ==
    LET t == CallThresholds
    IN  CASE screen_call.fn \in {"screen_stock", "screen_etf"} ->
                 LastRow.Close * LastRow.Volume >=
                     (IF "min_dollar_volume" \in DOMAIN t
                      THEN t.min_dollar_volume ELSE 1000000000)
          [] screen_call.fn = "screen_commodity" ->
                 LastRow.Volume >=
                     (IF "min_volume_contracts" \in DOMAIN t
                      THEN t.min_volume_contracts ELSE 100000)
          [] OTHER -> TRUE

\* the price floor of screen_stock
PriceFloor ==
    screen_call.fn = "screen_stock" =>
        LastRow.Close >=
            (IF "min_price" \in DOMAIN CallThresholds
             THEN CallThresholds.min_price ELSE 0)

\* the pass flags of the call's series against the call's thresholds
CallFlags == PassFlags(Changes(CallRows), CallThresholds)

OneFlagPasses ==
    CallFlags.passes_day \/ CallFlags.passes_week \/ CallFlags.passes_month

\* C8: a returned result has its 1-day and its 1-week change, and comes
\* from a series on which both can be computed; a series on which one of
\* them cannot is never returned, by any of the five screeners.
C8_DayAndWeekPresent ==
    Accepted =>
        /\ screen_ret.one_day_pct # None
        /\ screen_ret.one_week_pct # None
        /\ DayAvailable
        /\ WeekAvailable

\* a series with no 1-day change (zero close the day before) was rejected
\* although its week change passes and its volume is the highest
C8_Witness ==
    /\ Rejected
    /\ Len(CallRows) = 21
    /\ ~DayAvailable
    /\ WeekAvailable
    /\ AbsAtLeast(calculate_percent_change(CallRows, 5),
                  CallThresholds.one_week_pct_abs)
    /\ LastRow.Volume = 10000000
    /\ LastRow.Close = 159

C10_AcceptIffGateAndFlag ==
    (screen_ret # Pending /\ Screenable) =>
        (Accepted <=> (LiquidityGate /\ OneFlagPasses))

\* C10 as amended: ... exactly when the liquidity gate passes, the price is
\* at least thresholds.min_price (screen_stock only, default 0) and a pass
\* flag is set.
C10_AcceptIffGateFloorAndFlag ==
    (screen_ret # Pending /\ Screenable) =>
        (Accepted <=> (LiquidityGate /\ PriceFloor /\ OneFlagPasses))

\* a stock at 150 with volume 10,000,000, up more than the 5% threshold on
\* the day and on nothing else, against the default $1B, was returned
C10_Witness ==
    /\ Accepted
    /\ screen_call.fn = "screen_stock"
    /\ screen_call.config = ConfigDefaults
    /\ LastRow.Close = 150
    /\ LastRow.Volume = 10000000
    /\ screen_ret.passes_day
    /\ ~screen_ret.passes_week
    /\ ~screen_ret.passes_month

\* the last close is at least `threshold` hundredths of a percent away from
\* the close `back` rows before it, in either direction
Reaches(back, threshold) ==
    10000 * Abs(LastRow.Close - CloseBack(back))
        >= threshold * Abs(CloseBack(back))

WeekBack == Min(5, Len(CallRows) - 1)

MonthBack == Min(20, Len(CallRows) - 1)

\* C11: each pass flag of a returned result is the inclusive comparison
\* |change| >= threshold of its horizon, whatever the sign of the move; the
\* month flag is FALSE when the month change cannot be computed.
C11_FlagsInclusive ==
    Accepted =>
        /\ screen_ret.passes_day =
               Reaches(1, CallThresholds.one_day_pct_abs)
        /\ screen_ret.passes_week =
               Reaches(WeekBack, CallThresholds.one_week_pct_abs)
        /\ screen_ret.passes_month =
               (/\ CloseBack(MonthBack) # 0
                /\ Reaches(MonthBack, CallThresholds.one_month_pct_abs))

\* a forex pair returned on a fall of exactly the 1-day threshold (150 to
\* 141 against 6%), its week flag down, its month reference close zero:
\* the day flag is up, the month change is None and the month flag is down
C11_Witness ==
    /\ Accepted
    /\ screen_call.fn = "screen_forex"
    /\ LastRow.Close < CloseBack(1)
    /\ 10000 * (CloseBack(1) - LastRow.Close)
           = CallThresholds.one_day_pct_abs * CloseBack(1)
    /\ screen_ret.passes_day
    /\ ~screen_ret.passes_week
    /\ CloseBack(MonthBack) = 0
    /\ screen_ret.one_month_pct = None
    /\ ~screen_ret.passes_month

\* C13: the 1-week lookback is 5 rows and is not clamped, so a series of
\* fewer than 6 rows has no 1-week change and is rejected by every screener.
C13_WeekNeedsSixRows ==
    screen_ret # Pending /\ Len(CallRows) < 6 => Rejected

-----------------------------------------------------------------------------
(* The symbol directories and get_exchange_symbols.  A directory row is    *)
(* the record of the fields the code reads from a line: `fields` is the    *)
(* number of parts the line splits into and `has_dollar` tells whether the *)
(* symbol contains a "$".                                                  *)

\* list(dict.fromkeys(symbols)): each element once, at its first position
RECURSIVE Dedup(_)
Dedup(s) ==
    IF s = <<>> THEN <<>>
    ELSE LET d == Dedup(SubSeq(s, 1, Len(s) - 1))
             last == s[Len(s)]
         IN  IF \E i \in 1..Len(d) : d[i] = last THEN d ELSE Append(d, last)

NasdaqRowKept(row) ==
    /\ row.fields >= 8
    /\ row.etf = "N" /\ row.test_issue = "N" /\ row.next_shares = "N"
    /\ row.symbol # "" /\ ~row.has_dollar

_fetch_nasdaq_listed(response) ==
    IF response.raised THEN <<>>
    ELSE LET kept == SelectSeq(response.value, NasdaqRowKept)
         IN  Dedup([i \in 1..Len(kept) |-> kept[i].symbol])

OtherRowSymbol(row) ==
    IF row.nasdaq_symbol # "" THEN row.nasdaq_symbol ELSE row.act_symbol

OtherRowKept(row) ==
    /\ row.fields >= 8
    /\ row.exchange = "N"
    /\ row.etf = "N" /\ row.test_issue = "N"
    /\ ~row.has_dollar
    /\ OtherRowSymbol(row) # ""

_fetch_other_listed_nyse(response) ==
    IF response.raised THEN <<>>
    ELSE LET kept == SelectSeq(response.value, OtherRowKept)
         IN  Dedup([i \in 1..Len(kept) |-> OtherRowSymbol(kept[i])])

_fallback_exchange_symbols(exchange) ==
    IF exchange = "NYSE" THEN
        << "AAPL", "MSFT", "GOOGL", "AMZN", "TSLA", "META", "NVDA", "JPM",
           "V", "JNJ", "WMT", "PG", "MA", "UNH", "HD", "DIS", "BAC", "XOM",
           "CVX", "ABBV", "PFE", "KO", "AVGO", "COST", "MRK", "PEP", "TMO",
           "CSCO", "ABT", "ACN", "NFLX", "ADBE", "CMCSA", "NKE", "TXN",
           "HOOD", "COIN", "RIVN", "NBIS", "CRWV", "TOST", "PLTR", "SOFI",
           "LCID", "RBLX", "SNOW", "DDOG", "NET", "ZM", "DOCN", "UPST",
           "AFRM", "OPEN", "WISH", "CLOV", "SPCE", "FUBO", "NIO", "XPEV",
           "LI", "BABA", "JD", "PDD", "BILI", "TME", "VIPS", "WB", "DKNG" >>
    ELSE IF exchange = "NASDAQ" THEN
        << "AAPL", "MSFT", "GOOGL", "AMZN", "TSLA", "META", "NVDA", "AVGO",
           "COST", "NFLX", "ADBE", "CMCSA", "INTC", "AMD", "QCOM", "AMGN",
           "ISRG", "BKNG", "REGN", "VRTX", "ADI", "SNPS", "CDNS", "KLAC",
           "MCHP", "CTSH", "FTNT", "PAYX", "FAST", "CTAS", "WBD", "LRCX",
           "HOOD", "COIN", "RIVN", "NBIS", "CRWV", "TOST", "PLTR", "SOFI",
           "LCID", "RBLX", "SNOW", "DDOG", "NET", "ZM", "DOCN", "UPST",
           "AFRM", "OPEN", "WISH", "CLOV", "SPCE", "FUBO", "NIO", "XPEV",
           "DKNG" >>
    ELSE <<>>

\* the listing one of the two _fetch_* functions gives for an exchange
Listing(exchange, response) ==
    IF exchange = "NASDAQ" THEN _fetch_nasdaq_listed(response)
    ELSE IF exchange = "NYSE" THEN _fetch_other_listed_nyse(response)
    ELSE <<>>

\* a get_exchange_symbols without the built-in lists
get_exchange_symbols_NoFallback(exchange, response) ==
    Listing(exchange, response)

\* get_exchange_symbols, on what the directory request gives
get_exchange_symbols(exchange, response) ==
    LET listed == IF exchange = "NASDAQ" THEN _fetch_nasdaq_listed(response)
                  ELSE IF exchange = "NYSE"
                  THEN _fetch_other_listed_nyse(response)
                  ELSE <<>>
    IN  IF listed # <<>> THEN listed
        ELSE _fallback_exchange_symbols(exchange)

-----------------------------------------------------------------------------
(* main up to the aggregate list, with run_screener and the four           *)
(* run_*_screener loops: one action per iteration of a loop.  An entry of  *)
(* a configured list is [plain |-> s] for a bare string and a record of    *)
(* its keys for a mapping; a missing or empty symbol reads as "".          *)

CRYPTO_NAMES ==
    [s \in {"BTC-USD", "ETH-USD", "SOL-USD"} |->
        IF s = "BTC-USD" THEN "Bitcoin"
        ELSE IF s = "ETH-USD" THEN "Ethereum"
        ELSE "Solana"]

IsDict(item) == "plain" \notin DOMAIN item

ItemSymbol(item) ==
    IF IsDict(item) THEN Get(item, "symbol", "") ELSE item.plain

\* item.get("name") or default
ItemName(item, default) ==
    IF IsDict(item) /\ Get(item, "name", "") # "" THEN item.name ELSE default

CryptoName(item) ==
    ItemName(item, Get(CRYPTO_NAMES, ItemSymbol(item), ItemSymbol(item)))

ItemAssetClass(item) ==
    IF IsDict(item) THEN Get(item, "asset_class", "Other") ELSE "Other"

\* seen_symbols after one symbol was screened without a skip
SeenAfter_Never(seen, symbol, result) == seen

SeenAfter(seen, symbol, result) ==
    IF result # None THEN seen \cup {symbol} ELSE seen

\* a list after `if r: results.append(r)`
AppendIf(list, r) == IF r # None THEN Append(list, r) ELSE list

\* one ticker.history call made by fetch_stock_data inside fn, whether the
\* provider raised, and what the screening of its answer came to
Fetched(fn, symbol, response, result) ==
    [fn |-> fn, symbol |-> symbol, raised |-> response.raised,
     result |-> result]

exchanges == Get(run_config, "exchanges", <<>>)

crypto_list == Get(run_config, "crypto", <<>>)

forex_list == Get(run_config, "forex", <<>>)

commodity_list == Get(run_config, "commodities", <<>>)

etf_list == Get(run_config, "etfs", <<>>)

\* what the providers answer during a run. In any market: for a symbol of
\* TrackedSymbols the request fails or gives a series that moves, for a stock
\* also one that does not move; no other symbol has data. In a steady
\* market no request fails and every symbol has a series that moves
Mover == StepSeries(6, 159, 150, 141, 141, 10000000)

Flat == StepSeries(6, 150, 150, 150, 150, 10000000)

TrackedStocks == {"AAPL", "MSFT"}

TrackedSymbols ==
    TrackedStocks \cup {"BTC-USD", "EURUSD=X", "NG=F", "SPY"}

HistoryResponses(symbol) ==
    IF market = "steady" THEN {Returned(Mover)}
    ELSE IF symbol \in TrackedStocks
    THEN {Raised, Returned(Flat), Returned(Mover)}
    ELSE IF symbol \in TrackedSymbols
    THEN {Raised, Returned(Mover)}
    ELSE {Returned(<<>>)}

NasdaqRows ==
    << [fields |-> 8, symbol |-> "AAPL", has_dollar |-> FALSE,
        test_issue |-> "N", etf |-> "N", next_shares |-> "N"],
       [fields |-> 8, symbol |-> "QQQ", has_dollar |-> FALSE,
        test_issue |-> "N", etf |-> "Y", next_shares |-> "N"],
       [fields |-> 8, symbol |-> "MSFT", has_dollar |-> FALSE,
        test_issue |-> "N", etf |-> "N", next_shares |-> "N"],
       [fields |-> 8, symbol |-> "AAPL", has_dollar |-> FALSE,
        test_issue |-> "N", etf |-> "N", next_shares |-> "N"],
       [fields |-> 8, symbol |-> "ZTEST", has_dollar |-> FALSE,
        test_issue |-> "Y", etf |-> "N", next_shares |-> "N"],
       [fields |-> 1, symbol |-> "File Creation Time", has_dollar |-> FALSE,
        test_issue |-> "", etf |-> "", next_shares |-> ""] >>

NyseRows ==
    << [fields |-> 8, act_symbol |-> "IBM", has_dollar |-> FALSE,
        exchange |-> "N", etf |-> "N", test_issue |-> "N",
        nasdaq_symbol |-> "IBM"],
       [fields |-> 8, act_symbol |-> "BAC$B", has_dollar |-> TRUE,
        exchange |-> "N", etf |-> "N", test_issue |-> "N",
        nasdaq_symbol |-> "BAC-B"],
       [fields |-> 8, act_symbol |-> "SPY", has_dollar |-> FALSE,
        exchange |-> "P", etf |-> "Y", test_issue |-> "N",
        nasdaq_symbol |-> "SPY"],
       [fields |-> 8, act_symbol |-> "MSFT", has_dollar |-> FALSE,
        exchange |-> "N", etf |-> "N", test_issue |-> "N",
        nasdaq_symbol |-> ""] >>

DirectoryResponses(exchange) ==
    IF exchange = "NASDAQ"
    THEN (IF market = "steady" THEN {} ELSE {Raised})
             \cup {Returned(NasdaqRows)}
    ELSE IF exchange = "NYSE"
    THEN (IF market = "steady" THEN {} ELSE {Raised})
             \cup {Returned(NyseRows)}
    ELSE {Raised}

\* what ticker.info gives during a run
InfoResponses ==
    IF market = "steady"
    THEN {Returned([longName |-> "Apple Inc.", sector |-> "Technology"])}
    ELSE Infos

\* config.yaml with two exchanges and the four lists
RunConfigLists ==
    ConfigDefaults @@
    [exchanges   |-> <<"NYSE", "NASDAQ">>,
     crypto      |-> << [plain |-> "BTC-USD"],
                        [symbol |-> "BTC-USD", name |-> "BTC"] >>,
     forex       |-> << [plain |-> "EURUSD=X"] >>,
     commodities |-> << [name |-> "Gold"],
                        [symbol |-> "NG=F", name |-> "Natural Gas"] >>,
     etfs        |-> << [symbol |-> "SPY", name |-> "SPDR S&P 500",
                         asset_class |-> "Equity"],
                        [plain |-> "AAPL"] >>]

\* config.yaml with a known and an unknown exchange and no list
RunConfigExchanges == ConfigFull @@ [exchanges |-> <<"NASDAQ", "LSE">>]

RunConfigs == {RunConfigLists, RunConfigExchanges}

\* run_screener: `for exchange in exchanges`, up to the inner loop
ScanExchange ==
    /\ pc = "for_exchange"
    /\ exchange_idx <= Len(exchanges)
    /\ \E response \in DirectoryResponses(exchanges[exchange_idx]) :
         LET exchange == exchanges[exchange_idx]
             listed == get_exchange_symbols(exchange, response)
         IN  /\ symbols' = listed
             /\ scanned' = Append(scanned, [exchange |-> exchange,
                                            symbols |-> listed])
             /\ Catch(IF exchange \in {"NASDAQ", "NYSE"} /\ response.raised
                      THEN <<Failure("get_exchange_symbols", exchange)>>
                      ELSE <<>>)
    /\ idx' = 1
    /\ pc' = "for_symbol"
    /\ UNCHANGED <<run_config, stocks_only, exchange_idx, seen_symbols,
                   results, crypto_results, forex_results, commodity_results,
                   etf_results, all_results, fetch_log, sendVars, screenVars, fnVars, mainData>>

\* run_screener: one iteration of `for symbol in symbols`
ScreenSymbol ==
    /\ pc = "for_symbol"
    /\ idx <= Len(symbols)
    /\ LET symbol == symbols[idx]
       IN  IF symbol \in seen_symbols
           THEN UNCHANGED <<results, seen_symbols, fetch_log, caught, log>>
           ELSE \E response \in HistoryResponses(symbol),
                     info \in InfoResponses :
                  LET result == screen_stock(symbol, run_config,
                                             fetch_stock_data(response), info)
                  IN  /\ results' = AppendIf(results, result)
                      /\ seen_symbols' = SeenAfter(seen_symbols, symbol, result)
                      /\ fetch_log' = Append(fetch_log,
                                 Fetched("screen_stock", symbol, response,
                                         result))
                      /\ Catch(FetchFailure(symbol, response)
                               \o InfoFailure(symbol, result, info))
    /\ idx' = idx + 1
    /\ UNCHANGED <<run_config, stocks_only, pc, exchange_idx, symbols,
                   crypto_results, forex_results, commodity_results,
                   etf_results, all_results, scanned, sendVars, screenVars, fnVars, mainData>>

\* run_screener: the inner loop is exhausted, on to the next exchange
NextExchange ==
    /\ pc = "for_symbol"
    /\ idx > Len(symbols)
    /\ exchange_idx' = exchange_idx + 1
    /\ pc' = "for_exchange"
    /\ UNCHANGED <<run_config, stocks_only, symbols, idx, seen_symbols,
                   results, crypto_results, forex_results, commodity_results,
                   etf_results, all_results, scanned, fetch_log, sendVars,
                   screenVars, fnVars, mainVars>>

\* run_screener returns; main goes on to the lists unless stocks_only
RunScreenerReturn ==
    /\ pc = "for_exchange"
    /\ exchange_idx > Len(exchanges)
    /\ pc' = IF stocks_only THEN "aggregate" ELSE "crypto"
    /\ idx' = 1
    /\ UNCHANGED <<run_config, stocks_only, exchange_idx, symbols,
                   seen_symbols, results, crypto_results, forex_results,
                   commodity_results, etf_results, all_results, scanned,
                   fetch_log, sendVars, screenVars, fnVars, mainVars>>

\* run_crypto_screener: one iteration of `for item in crypto_list`
CryptoItem ==
    /\ pc = "crypto"
    /\ idx <= Len(crypto_list)
    /\ LET item == crypto_list[idx]
           symbol == ItemSymbol(item)
       IN  IF symbol = ""
           THEN UNCHANGED <<crypto_results, fetch_log, caught, log>>
           ELSE \E response \in HistoryResponses(symbol) :
                  LET r == screen_crypto(symbol, CryptoName(item), run_config,
                                         fetch_stock_data(response))
                  IN  /\ crypto_results' = AppendIf(crypto_results, r)
                      /\ fetch_log' = Append(fetch_log,
                                 Fetched("screen_crypto", symbol, response,
                                         r))
                      /\ Catch(FetchFailure(symbol, response))
    /\ idx' = idx + 1
    /\ UNCHANGED <<run_config, stocks_only, pc, exchange_idx, symbols,
                   seen_symbols, results, forex_results, commodity_results,
                   etf_results, all_results, scanned, sendVars, screenVars, fnVars, mainData>>

\* run_forex_screener: one iteration of `for item in forex_list`
ForexItem ==
    /\ pc = "forex"
    /\ idx <= Len(forex_list)
    /\ LET item == forex_list[idx]
           symbol == ItemSymbol(item)
       IN  IF symbol = ""
           THEN UNCHANGED <<forex_results, fetch_log, caught, log>>
           ELSE \E response \in HistoryResponses(symbol) :
                  LET r == screen_forex(symbol, ItemName(item, symbol),
                                        run_config, fetch_stock_data(response))
                  IN  /\ forex_results' = AppendIf(forex_results, r)
                      /\ fetch_log' = Append(fetch_log,
                                 Fetched("screen_forex", symbol, response,
                                         r))
                      /\ Catch(FetchFailure(symbol, response))
    /\ idx' = idx + 1
    /\ UNCHANGED <<run_config, stocks_only, pc, exchange_idx, symbols,
                   seen_symbols, results, crypto_results, commodity_results,
                   etf_results, all_results, scanned, sendVars, screenVars, fnVars, mainData>>

\* run_commodity_screener: one iteration of `for item in commodity_list`
CommodityItem ==
    /\ pc = "commodities"
    /\ idx <= Len(commodity_list)
    /\ LET item == commodity_list[idx]
           symbol == ItemSymbol(item)
       IN  IF symbol = ""
           THEN UNCHANGED <<commodity_results, fetch_log, caught, log>>
           ELSE \E response \in HistoryResponses(symbol) :
                  LET r == screen_commodity(symbol, ItemName(item, symbol),
                                            run_config,
                                            fetch_stock_data(response))
                  IN  /\ commodity_results' = AppendIf(commodity_results, r)
                      /\ fetch_log' = Append(fetch_log,
                                 Fetched("screen_commodity", symbol, response,
                                         r))
                      /\ Catch(FetchFailure(symbol, response))
    /\ idx' = idx + 1
    /\ UNCHANGED <<run_config, stocks_only, pc, exchange_idx, symbols,
                   seen_symbols, results, crypto_results, forex_results,
                   etf_results, all_results, scanned, sendVars, screenVars, fnVars, mainData>>

\* run_etf_screener: one iteration of `for item in etf_list`
EtfItem ==
    /\ pc = "etfs"
    /\ idx <= Len(etf_list)
    /\ LET item == etf_list[idx]
           symbol == ItemSymbol(item)
       IN  IF symbol = ""
           THEN UNCHANGED <<etf_results, fetch_log, caught, log>>
           ELSE \E response \in HistoryResponses(symbol) :
                  LET r == screen_etf(symbol, ItemName(item, symbol),
                                      ItemAssetClass(item), run_config,
                                      fetch_stock_data(response))
                  IN  /\ etf_results' = AppendIf(etf_results, r)
                      /\ fetch_log' = Append(fetch_log,
                                 Fetched("screen_etf", symbol, response,
                                         r))
                      /\ Catch(FetchFailure(symbol, response))
    /\ idx' = idx + 1
    /\ UNCHANGED <<run_config, stocks_only, pc, exchange_idx, symbols,
                   seen_symbols, results, crypto_results, forex_results,
                   commodity_results, all_results, scanned, sendVars,
                   screenVars, fnVars, mainData>>

\* the list a run_*_screener loops over, and the statement of main after it
ListAt(at) ==
    IF at = "crypto" THEN crypto_list
    ELSE IF at = "forex" THEN forex_list
    ELSE IF at = "commodities" THEN commodity_list
    ELSE etf_list

After(at) ==
    IF at = "crypto" THEN "forex"
    ELSE IF at = "forex" THEN "commodities"
    ELSE IF at = "commodities" THEN "etfs"
    ELSE "aggregate"

\* a run_*_screener returns its results; main calls the next one
ListScreenerReturn ==
    /\ pc \in {"crypto", "forex", "commodities", "etfs"}
    /\ idx > Len(ListAt(pc))
    /\ pc' = After(pc)
    /\ idx' = 1
    /\ UNCHANGED <<run_config, stocks_only, exchange_idx, symbols,
                   seen_symbols, results, crypto_results, forex_results,
                   commodity_results, etf_results, all_results, scanned,
                   fetch_log, sendVars, screenVars, fnVars, mainVars>>

\* main: all_results = results + crypto_results + ... + etf_results
Aggregate ==
    /\ pc = "aggregate"
    /\ all_results' = results \o crypto_results \o forex_results
                          \o commodity_results \o etf_results
    /\ pc' = "aggregated"
    /\ UNCHANGED <<run_config, stocks_only, exchange_idx, symbols, idx,
                   seen_symbols, results, crypto_results, forex_results,
                   commodity_results, etf_results, scanned, fetch_log,
                   sendVars, screenVars, fnVars, mainVars>>

\* main at its call of run_screener, config.yaml being one of `configs`
InitRunWith(configs) ==
    /\ run_config \in configs
    /\ stocks_only \in BOOLEAN
    /\ pc = "for_exchange"
    /\ exchange_idx = 1
    /\ symbols = <<>>
    /\ idx = 0
    /\ seen_symbols = {}
    /\ results = <<>>
    /\ crypto_results = <<>>
    /\ forex_results = <<>>
    /\ commodity_results = <<>>
    /\ etf_results = <<>>
    /\ all_results = <<>>
    /\ scanned = <<>>
    /\ fetch_log = <<>>
    /\ SendIdle
    /\ ScreenIdle
    /\ FnIdle
    /\ MainIdle

InitRun == InitRunWith(RunConfigs)

NextRun ==
    \/ ScanExchange
    \/ ScreenSymbol
    \/ NextExchange
    \/ RunScreenerReturn
    \/ CryptoItem
    \/ ForexItem
    \/ CommodityItem
    \/ EtfItem
    \/ ListScreenerReturn
    \/ Aggregate

SpecRun == InitRun /\ [][NextRun]_vars

\* config.yaml with a known and an unknown exchange and one entry in each
\* list
RunConfigShort ==
    ConfigDefaults @@
    [exchanges   |-> <<"NASDAQ", "LSE">>,
     crypto      |-> << [plain |-> "BTC-USD"] >>,
     forex       |-> << [symbol |-> "EURUSD=X", name |-> "EUR/USD"] >>,
     commodities |-> << [symbol |-> "NG=F", name |-> "Natural Gas"] >>,
     etfs        |-> << [symbol |-> "SPY", name |-> "SPDR S&P 500",
                         asset_class |-> "Equity"] >>]

InitRunShort == InitRunWith({RunConfigShort})

\* the run is one sequential process: it takes its next step when it has one
SpecRunFair == InitRunShort /\ [][NextRun]_vars /\ WF_vars(NextRun)

-----------------------------------------------------------------------------
(* Properties of run_screener and of main's aggregate, checked under       *)
(* SpecRun                                                                 *)

\* the symbols of a list of result dicts are pairwise distinct
DistinctSymbols(list) ==
    \A i, j \in 1..Len(list) : i # j => list[i].symbol # list[j].symbol

\* the positions in fetch_log of the screen_stock calls that accepted symbol
AcceptedFetches(symbol) ==
    { k \in 1..Len(fetch_log) :
        /\ fetch_log[k].fn = "screen_stock"
        /\ fetch_log[k].symbol = symbol
        /\ fetch_log[k].result # None }

FirstOf(positions) == CHOOSE k \in positions : \A m \in positions : k <= m

\* symbol is in the list of the n-th exchange scanned
ListedIn(n, symbol) ==
    \E i \in 1..Len(scanned[n].symbols) : scanned[n].symbols[i] = symbol

RunScreenerReturned == pc \notin {"for_exchange", "for_symbol"}

\* C5: the list run_screener builds and returns holds each symbol at most
\* once, and the result it holds for a symbol is the one of the first
\* screening that accepted the symbol.
C5_SymbolOnceFirstAccepted ==
    /\ DistinctSymbols(results)
    /\ \A i \in 1..Len(results) :
         /\ AcceptedFetches(results[i].symbol) # {}
         /\ results[i] =
              fetch_log[FirstOf(AcceptedFetches(results[i].symbol))].result

\* C5 witness: run_screener has returned after two exchanges that both list
\* MSFT; MSFT was screened and rejected in the first, screened again and
\* accepted in the second, and is in the returned list.
C5_Witness ==
    /\ RunScreenerReturned
    /\ Len(scanned) = 2
    /\ ListedIn(1, "MSFT") /\ ListedIn(2, "MSFT")
    /\ \E k, m \in 1..Len(fetch_log) :
         /\ k < m
         /\ fetch_log[k].symbol = "MSFT" /\ fetch_log[k].result = None
         /\ fetch_log[m].symbol = "MSFT" /\ fetch_log[m].result # None
    /\ \E i \in 1..Len(results) : results[i].symbol = "MSFT"

\* C6: once main has built all_results from the five lists, each symbol
\* appears in it at most once.
C6_AggregateSymbolOnce == pc = "aggregated" => DistinctSymbols(all_results)

\* C7: within one run no symbol's price series is fetched twice.
C7_FetchedAtMostOnce ==
    \A k, m \in 1..Len(fetch_log) :
        k # m => fetch_log[k].symbol # fetch_log[m].symbol

\* the results, in call order, of the calls of fn whose fetch did not fail
ResultsWithoutFailures(fn) ==
    LET kept == SelectSeq(fetch_log,
                          LAMBDA e : e.fn = fn /\ ~e.raised /\ e.result # None)
    IN  [i \in 1..Len(kept) |-> kept[i].result]

\* every symbol of every configured exchange and list was fetched
AllScreened ==
    /\ Len(scanned) = Len(exchanges)
    /\ \A n \in 1..Len(scanned) : \A i \in 1..Len(scanned[n].symbols) :
         \E k \in 1..Len(fetch_log) :
            /\ fetch_log[k].fn = "screen_stock"
            /\ fetch_log[k].symbol = scanned[n].symbols[i]
    /\ ~stocks_only =>
         \A list \in {crypto_list, forex_list, commodity_list, etf_list} :
            \A i \in 1..Len(list) :
               ItemSymbol(list[i]) # "" =>
                  \E k \in 1..Len(fetch_log) :
                     /\ fetch_log[k].fn # "screen_stock"
                     /\ fetch_log[k].symbol = ItemSymbol(list[i])

FailuresGiveNoResult ==
    /\ \A k \in 1..Len(fetch_log) :
         fetch_log[k].raised => fetch_log[k].result = None
    /\ results = ResultsWithoutFailures("screen_stock")
    /\ crypto_results = ResultsWithoutFailures("screen_crypto")
    /\ forex_results = ResultsWithoutFailures("screen_forex")
    /\ commodity_results = ResultsWithoutFailures("screen_commodity")
    /\ etf_results = ResultsWithoutFailures("screen_etf")
    /\ pc = "aggregated" => AllScreened

\* C15: whatever fetches fail, the run goes on to the aggregate list, having
\* by then fetched every symbol of every exchange and list; a failed fetch
\* gave no result for its symbol and nothing else: the five lists are the
\* results of the fetches that did not fail.
C15_FailuresNeverAbort ==
    <>(pc = "aggregated" /\ FailuresGiveNoResult)

\* a run that reached the aggregate list although the directory of the
\* first exchange failed and a price fetch failed, with a symbol accepted
\* after the failed fetch
C15_Witness ==
    /\ pc = "aggregated"
    /\ Len(scanned) = 2
    /\ scanned[1].symbols = _fallback_exchange_symbols("NASDAQ")
    /\ \E k, m \in 1..Len(fetch_log) :
         /\ k < m
         /\ fetch_log[k].raised
         /\ fetch_log[m].result # None
         /\ fetch_log[m].fn = "screen_stock"
    /\ Len(all_results) > 0

-----------------------------------------------------------------------------
(* calculate_percent_change and get_indices_snapshot as functions of a     *)
(* series.  The snapshot divides without a zero test: on a zero reference  *)
(* close the float division gives inf or nan, kept here as a change with   *)
(* denominator 0.                                                          *)

INDICES ==
    << <<"^GSPC", "S&P 500">>, <<"^IXIC", "Nasdaq">>, <<"^DJI", "Dow 30">>,
       <<"^RUT", "Russell 2000">>, <<"^VIX", "VIX">> >>

\* ((data["Close"].iloc[-1] - p) / p) * 100, p the close `back` rows back
SnapshotChange(data, back) ==
    LET p == data[Len(data) - back].Close
    IN  [n |-> (data[Len(data)].Close - p) * 100, d |-> p]

\* round(x, 2) if x is not None else None; inf and nan round to themselves
SnapshotRound(x) ==
    IF x = None THEN None ELSE IF x.d = 0 THEN x ELSE Round2(x)

\* one iteration of get_indices_snapshot: the dict appended to `out`, or
\* None when the iteration appends nothing
IndexEntry(symbol, name, response) ==
    IF response.raised THEN None
    ELSE LET data == response.value
             len == Len(data)
         IN  IF len < 2 THEN None
             ELSE [symbol |-> symbol,
                   name   |-> name,
                   price  |-> data[len].Close,
                   one_day_pct    |-> SnapshotRound(SnapshotChange(data, 1)),
                   one_week_pct   |->
                       IF len >= 6
                       THEN SnapshotRound(SnapshotChange(data, 5)) ELSE None,
                   one_month_pct  |->
                       IF len >= 21
                       THEN SnapshotRound(SnapshotChange(data, 20)) ELSE None,
                   one_6m_pct     |->
                       SnapshotRound(SnapshotChange(data, Min(126, len - 1))),
                   one_year_pct   |->
                       IF len >= 253
                       THEN SnapshotRound(SnapshotChange(data, Min(252, len - 1)))
                       ELSE None,
                   three_year_pct |->
                       IF len >= 757
                       THEN SnapshotRound(SnapshotChange(data, Min(756, len - 1)))
                       ELSE None,
                   is_vix |-> symbol = "^VIX"]

\* one call of calculate_percent_change
CalculatePercentChange ==
    /\ fn_ret = Pending
    /\ fn_call.fn = "calculate_percent_change"
    /\ fn_ret' = calculate_percent_change(fn_call.data, fn_call.days)
    /\ UNCHANGED <<fn_call, sendVars, screenVars, runVars, mainVars>>

\* one iteration of the loop of get_indices_snapshot
SnapshotIndex ==
    /\ fn_ret = Pending
    /\ fn_call.fn = "get_indices_snapshot"
    /\ fn_ret' = IndexEntry(fn_call.symbol, fn_call.name, fn_call.response)
    /\ UNCHANGED <<fn_call, sendVars, screenVars, runVars, mainVars>>

\* one call of get_exchange_symbols
GetExchangeSymbols ==
    /\ fn_ret = Pending
    /\ fn_call.fn = "get_exchange_symbols"
    /\ fn_ret' = get_exchange_symbols(fn_call.exchange, fn_call.response)
    /\ UNCHANGED <<fn_call, sendVars, screenVars, runVars, mainVars>>

\* the series the two functions are run on: those of StepSeries, from one
\* row up to the 757 rows the 3-year lookback of the snapshot asks for
FnLengths == {1, 2, 5, 6, 21, 253, 757}

FnSeries ==
    { StepSeries(len, c0, c1, cw, cm, 10000000) :
        len \in FnLengths, c0 \in Closes, c1 \in Closes, cw \in Closes,
        cm \in Closes }

FnDays == {1, 5, 20}

-----------------------------------------------------------------------------
(* src/run_screener.py: format_stock_message and _append_section_block.    *)
(*                                                                         *)
(* A message is a string.  Each character outside ASCII that the source    *)
(* writes is one ASCII stand-in per code point, none of which occurs in    *)
(* the names, symbols and sectors of the inputs below.  A list argument    *)
(* that is None is the empty list: the source tests both with `not` / `or`.*)

EmDash == "~"

Bullet == "*"

EMOJI_SCAN == "#"

EMOJI_INDICES == "@"

EMOJI_STOCKS == "^"

EMOJI_ETFS == "{}"

COMMODITY_CONTRACT_SIZE == [s \in {"GC=F"} |-> 100] @@ [s \in {"CL=F"} |-> 1000]

\* the characters of a string, one by one
Chars(s) == [i \in 1..Len(s) |-> SubSeq(s, i, i)]

\* the string "".join(ss[lo..hi])
RECURSIVE Join(_, _, _)
Join(ss, lo, hi) ==
    IF lo > hi THEN ""
    ELSE IF lo = hi THEN ss[lo]
    ELSE LET mid == (lo + hi) \div 2
         IN  Join(ss, lo, mid) \o Join(ss, mid + 1, hi)

Str(cs) == Join(cs, 1, Len(cs))

\* the printable ASCII characters in code point order, but for the
\* backquote, which no input holds
Ascii ==
    " !\"#$%&'()*+,-./0123456789:;<=>?@ABCDEFGHIJKLMNOPQRSTUVWXYZ[\\]^_abcdefghijklmnopqrstuvwxyz{|}~"

\* the place of the character c in that order
Ord(c) == CHOOSE i \in 1..Len(Ascii) : SubSeq(Ascii, i, i) = c

\* c.upper()
UpperChar(c) ==
    IF Ord(c) >= Ord("a") /\ Ord(c) <= Ord("z")
    THEN SubSeq(Ascii, Ord(c) - Ord("a") + Ord("A"), Ord(c) - Ord("a") + Ord("A"))
    ELSE c

\* s.upper(), as its characters
upper(s) == [i \in 1..Len(s) |-> UpperChar(SubSeq(s, i, i))]

\* a < b for two strings given by their characters: Python compares code
\* point by code point, and a proper prefix is less
StrLess(a, b) ==
    \E i \in 1..(Len(b)) :
        /\ \A k \in 1..(i - 1) : k <= Len(a) /\ a[k] = b[k]
        /\ i > Len(a) \/ (i <= Len(a) /\ Ord(a[i]) < Ord(b[i]))

\* sorted(seq, key=...): before[i][j] is key(seq[i]) < key(seq[j]); the
\* sort is stable, elements with equal keys stay in the order of seq
Sorted(seq, before) ==
    LET n == Len(seq)
        rank(i) == Cardinality({ j \in 1..n :
                       \/ before[j][i]
                       \/ (~before[i][j] /\ j < i) }) + 1
    IN  [k \in 1..n |-> seq[CHOOSE i \in 1..n : rank(i) = k]]

\* the distinct values of tags, in the order they first occur: the keys of
\* a dict filled by setdefault(tag, []).append(x)
Keys(tags) ==
    LET first == SelectSeq([i \in 1..Len(tags) |-> i],
                           LAMBDA i : \A j \in 1..(i - 1) : tags[j] # tags[i])
    IN  [k \in 1..Len(first) |-> tags[first[k]]]

Pow10(k) == IF k = 0 THEN 1 ELSE IF k = 1 THEN 10 ELSE IF k = 2 THEN 100 ELSE 10000

\* n written with at least k digits
Pad(n, k) ==
    LET s == ToString(n)
    IN  Join([i \in 1..(k - Len(s)) |-> "0"], 1, k - Len(s)) \o s

\* f"{x:.kf}" for x = n / d, d # 0: the nearest multiple of 10^-k, a tie to
\* the even one
Fixed(n, d, k) ==
    LET a == Abs(n)
        b == Abs(d)
        q == a \div b
        scaled == (a % b) * Pow10(k)
        f0 == scaled \div b
        fr == scaled % b
        f == IF 2 * fr > b \/ (2 * fr = b /\ f0 % 2 = 1) THEN f0 + 1 ELSE f0
        whole == IF f = Pow10(k) THEN q + 1 ELSE q
        frac == IF f = Pow10(k) THEN 0 ELSE f
    IN  (IF n # 0 /\ (n < 0) # (d < 0) THEN "-" ELSE "")
            \o ToString(whole)
            \o (IF k = 0 THEN "" ELSE "." \o Pad(frac, k))

\* f"{pct:+.2f}" for a change n / d; inf and nan for a denominator of zero
Signed2(pct) ==
    IF pct.d = 0
    THEN IF pct.n > 0 THEN "+inf" ELSE IF pct.n < 0 THEN "-inf" ELSE "+nan"
    ELSE (IF pct.n # 0 /\ (pct.n < 0) # (pct.d < 0) THEN "" ELSE "+")
             \o Fixed(pct.n, pct.d, 2)

\* a pct_str that emphasizes every figure there is
pct_str_AlwaysBold(label, pct, passes) ==
    IF pct = None THEN label \o ": " \o EmDash
    ELSE "<b>" \o label \o ": " \o Signed2(pct) \o "%" \o "</b>"

\* pct_str, the same in the four loops
pct_str(label, pct, passes) ==
    IF pct = None THEN label \o ": " \o EmDash
    ELSE LET s == label \o ": " \o Signed2(pct) \o "%"
         IN  IF passes THEN "<b>" \o s \o "</b>" ELSE s

\* f"6M: {six_val:+.2f}%" if six_val is not None else the dash
tail_str(label, pct) ==
    IF pct # None THEN label \o ": " \o Signed2(pct) \o "%"
    ELSE label \o ": " \o EmDash

change_str(stock) ==
    pct_str("1D", stock.one_day_pct, stock.passes_day)
        \o " | " \o pct_str("1W", stock.one_week_pct, stock.passes_week)
        \o " | " \o pct_str("1M", Get(stock, "one_month_pct", None),
                            Get(stock, "passes_month", FALSE))
        \o " | " \o tail_str("6M", Get(stock, "one_6m_pct", None))
        \o " | " \o tail_str("1Y", Get(stock, "one_year_pct", None))
        \o " | " \o tail_str("3Y", Get(stock, "three_year_pct", None))

\* stock.get("company_name", symbol)
company_name(stock) == Get(stock, "company_name", stock.symbol)

\* html.escape on a string
escape(s) == Str(html_escape(Chars(s)))

\* the key of the sorts of instruments
ByName(x, y) == StrLess(upper(company_name(x)), upper(company_name(y)))

\* sorted(stocks, key=lambda x: x.get("company_name", x["symbol"]).upper())
SortedByName(stocks) ==
    Sorted(stocks, [i \in 1..Len(stocks) |-> [j \in 1..Len(stocks) |->
                       ByName(stocks[i], stocks[j])]])

\* stock.get("volume") or 0
vol(stock) == Get(stock, "volume", 0)

\* "  Vol: {vol_shares:.2f}M (${dollar_vol:.1f}M)\n\n"
share_volume(stock) ==
    "  Vol: " \o Fixed(vol(stock), 1000000, 2) \o "M ($"
        \o Fixed(vol(stock) * stock.price, 1000000, 1) \o "M)\n\n"

\* the lines of one instrument of the Stocks section
stock_entry(stock) ==
    "<b>" \o escape(company_name(stock)) \o " (" \o stock.symbol \o ")</b> $"
        \o Fixed(stock.price, 1, 2) \o "\n"
        \o "  " \o change_str(stock) \o "\n"
        \o (IF vol(stock) > 0 THEN share_volume(stock) ELSE "\n")

\* the lines of one instrument of the ETFs section: the volume line is
\* written whatever the volume
etf_entry(stock) ==
    "<b>" \o escape(company_name(stock)) \o " (" \o stock.symbol \o ")</b> $"
        \o Fixed(stock.price, 1, 2) \o "\n"
        \o "  " \o change_str(stock) \o "\n"
        \o share_volume(stock)

\* the lines of one instrument of a Crypto, Commodities or Forex block
section_entry(stock, is_forex, is_commodity) ==
    "<b>" \o escape(company_name(stock)) \o " (" \o stock.symbol \o ")</b> "
        \o (IF is_forex THEN Fixed(stock.price, 1, 4)
            ELSE "$" \o Fixed(stock.price, 1, 2)) \o "\n"
        \o "  " \o change_str(stock) \o "\n"
        \o (IF is_forex /\ vol(stock) > 0
            THEN "  Vol: " \o Fixed(vol(stock), 1000000, 2) \o "M\n\n"
            ELSE IF is_commodity /\ vol(stock) > 0
            THEN "  Vol: " \o Fixed(vol(stock), 1000, 1) \o "K contracts ($"
                     \o Fixed(vol(stock) * stock.price
                                  * Get(COMMODITY_CONTRACT_SIZE, stock.symbol, 1),
                              1000000, 1)
                     \o "M)\n\n"
            ELSE IF ~is_forex /\ ~is_commodity /\ vol(stock) > 0
            THEN share_volume(stock)
            ELSE "\n")

\* by_sector[sector], [] when there is none
by_sector(all, sector) ==
    SelectSeq(all, LAMBDA r : Get(r, "sector", "Other") = sector)

\* _append_section_block
_append_section_block(message, all, sector, emoji, is_forex, is_commodity) ==
    LET stocks == SortedByName(by_sector(all, sector))
    IN  IF stocks = <<>> THEN message
        ELSE message \o "<b>" \o emoji \o " " \o sector \o "</b>\n"
                 \o Join([i \in 1..Len(stocks) |->
                             section_entry(stocks[i], is_forex, is_commodity)],
                         1, Len(stocks))
                 \o "\n"

\* a set of sections that takes Crypto for a stock sector
non_stock_NoCrypto == {"Forex", "Commodities", "ETFs"}

non_stock == {"Crypto", "Forex", "Commodities", "ETFs"}

SECTION_EMOJI == [Crypto |-> "=", Commodities |-> "!", Forex |-> "?"]

\* the default of etf_asset_class_order
DefaultEtfOrder ==
    <<"Equity", "Fixed Income", "Commodities", "Currency", "Asset Location",
      "Alternatives">>

\* a sector order that is alphabetical throughout
SectorBefore_Alphabetical(a, b) == StrLess(upper(a), upper(b))

\* key=lambda s: (s == "Other", s.upper())
SectorBefore(a, b) ==
    IF (a = "Other") # (b = "Other") THEN b = "Other"
    ELSE StrLess(upper(a), upper(b))

\* sorted([s for s in by_sector if s not in non_stock], key=...)
stock_sectors(all) ==
    LET sectors == SelectSeq(Keys([i \in 1..Len(all) |->
                                      Get(all[i], "sector", "Other")]),
                             LAMBDA s : s \notin non_stock)
    IN  Sorted(sectors, [i \in 1..Len(sectors) |-> [j \in 1..Len(sectors) |->
                            SectorBefore(sectors[i], sectors[j])]])

\* the line under the title: what was found
found_line(stock_count, etf_count, crypto_count, forex_count, commodity_count, indices) ==
    LET parts ==
            (IF stock_count # 0
             THEN <<ToString(stock_count) \o " stock(s)">> ELSE <<>>)
            \o (IF etf_count # 0
                THEN <<ToString(etf_count) \o " ETF(s)">> ELSE <<>>)
            \o (IF crypto_count # 0
                THEN <<ToString(crypto_count) \o " crypto">> ELSE <<>>)
            \o (IF forex_count # 0
                THEN <<ToString(forex_count) \o " forex">> ELSE <<>>)
            \o (IF commodity_count # 0
                THEN <<ToString(commodity_count) \o " commodities">> ELSE <<>>)
    IN  IF parts # <<>>
        THEN "Found "
                 \o Join([i \in 1..(2 * Len(parts) - 1) |->
                             IF i % 2 = 1 THEN parts[(i + 1) \div 2] ELSE " + "],
                         1, 2 * Len(parts) - 1)
                 \o " matching criteria:\n\n"
        ELSE IF indices # <<>> THEN "Indices snapshot:\n\n"
        ELSE "\n"

\* the lines of one index
index_entry(index) ==
    IF Get(index, "is_vix", FALSE)
    THEN "<b>" \o escape(index.name) \o " (" \o index.symbol \o ")</b> "
             \o Fixed(index.price, 1, 2)
             \o (IF Get(index, "one_day_pct", None) # None
                 THEN "  1D: " \o Signed2(index.one_day_pct) \o "%" ELSE "")
             \o "\n\n"
    ELSE "<b>" \o escape(index.name) \o " (" \o index.symbol \o ")</b> "
             \o Fixed(index.price, 1, 2) \o "\n"
             \o "  " \o tail_str("1D", Get(index, "one_day_pct", None))
             \o " | " \o tail_str("1W", Get(index, "one_week_pct", None))
             \o " | " \o tail_str("1M", Get(index, "one_month_pct", None))
             \o " | " \o tail_str("6M", Get(index, "one_6m_pct", None))
             \o " | " \o tail_str("1Y", Get(index, "one_year_pct", None))
             \o " | " \o tail_str("3Y", Get(index, "three_year_pct", None))
             \o "\n\n"

\* the Indices section of message 1
indices_block(indices) ==
    IF indices = <<>> THEN ""
    ELSE "<b>" \o EMOJI_INDICES \o " Indices</b>\n"
             \o Join([i \in 1..Len(indices) |->
                         index_entry(indices[i])],
                     1, Len(indices))
             \o "\n"

\* one sector of the Stocks section
sector_block(all, sector) ==
    LET stocks == SortedByName(by_sector(all, sector))
    IN  "  <b>" \o Bullet \o " " \o sector \o "</b>\n"
            \o Join([i \in 1..Len(stocks) |-> stock_entry(stocks[i])],
                    1, Len(stocks))
            \o "\n"

\* the Stocks section of message 1
stocks_block(all) ==
    LET sectors == stock_sectors(all)
    IN  IF sectors = <<>> THEN ""
        ELSE "<b>" \o EMOJI_STOCKS \o " Stocks</b>\n"
                 \o Join([i \in 1..Len(sectors) |->
                             sector_block(all, sectors[i])],
                         1, Len(sectors))

\* r.get("asset_class", "Other")
asset_class_of(r) == Get(r, "asset_class", "Other")

\* one asset class of the ETFs section
asset_class_block(etfs, ac) ==
    LET items == SortedByName(SelectSeq(etfs,
                                        LAMBDA r : asset_class_of(r) = ac))
    IN  "  <b>" \o Bullet \o " " \o ac \o "</b>\n"
            \o Join([i \in 1..Len(items) |-> etf_entry(items[i])],
                    1, Len(items))
            \o "\n"

\* whether x is one of the elements of seq
In(x, seq) == \E i \in 1..Len(seq) : seq[i] = x

\* `for ac in etf_order: if ac not in by_asset_class: continue`: the asset
\* classes the first loop renders, one for each place of etf_order
ListedClasses(etf_order, classes) ==
    SelectSeq(etf_order, LAMBDA ac : In(ac, classes))

\* `for ac in sorted(by_asset_class.keys()): if ac in etf_order: continue`
UnlistedClasses(etf_order, classes) ==
    LET rest == SelectSeq(classes, LAMBDA ac : ~In(ac, etf_order))
    IN  Sorted(rest, [i \in 1..Len(rest) |-> [j \in 1..Len(rest) |->
                         StrLess(Chars(rest[i]), Chars(rest[j]))]])

\* the ETFs section of message 2
etfs_block(all, etf_asset_class_order) ==
    LET etf_order == IF etf_asset_class_order = <<>>
                     THEN DefaultEtfOrder ELSE etf_asset_class_order
        etfs == by_sector(all, "ETFs")
        classes == Keys([i \in 1..Len(etfs) |-> asset_class_of(etfs[i])])
        order == ListedClasses(etf_order, classes)
                     \o UnlistedClasses(etf_order, classes)
    IN  IF etfs = <<>> THEN ""
        ELSE "<b>" \o EMOJI_ETFS \o " ETFs</b>\n"
                 \o Join([i \in 1..Len(order) |->
                             asset_class_block(etfs, order[i])],
                         1, Len(order))

\* str.strip() on a string
strip_str(s) == Str(strip(Chars(s)))

\* format_stock_message: the pair (msg1, msg2)
format_stock_message(all, crypto_count, forex_count, commodity_count, etf_count, indices, etf_asset_class_order) ==
    LET stock_count == Len(all) - crypto_count - forex_count
                           - commodity_count - etf_count
        msg1 == EMOJI_SCAN \o " <b>MarketScout Scan</b>\n"
                    \o found_line(stock_count, etf_count, crypto_count,
                                  forex_count, commodity_count, indices)
                    \o indices_block(indices)
                    \o stocks_block(all)
        crypto == _append_section_block("", all, "Crypto",
                                        SECTION_EMOJI.Crypto, FALSE, FALSE)
        commodities == _append_section_block(crypto, all, "Commodities",
                                             SECTION_EMOJI.Commodities,
                                             FALSE, TRUE)
        forex == _append_section_block(commodities, all, "Forex",
                                       SECTION_EMOJI.Forex, TRUE, FALSE)
        msg2 == forex \o etfs_block(all, etf_asset_class_order)
    IN  IF all = <<>> /\ indices = <<>>
        THEN <<EMOJI_SCAN \o " <b>MarketScout Scan</b>\n\nNo stocks, crypto, forex, commodities, or ETFs found matching criteria.",
               "">>
        ELSE <<strip_str(msg1),
               strip_str(IF strip_str(msg2) # ""
                         THEN EMOJI_SCAN
                                  \o " <b>MarketScout Scan (2/2)</b>\n\n" \o msg2
                         ELSE msg2)>>

\* one call of format_stock_message
FormatStockMessage ==
    /\ fn_call.fn = "format_stock_message"
    /\ fn_ret = Pending
    /\ fn_ret' = Returned(format_stock_message(
                              fn_call.results, fn_call.crypto_count,
                              fn_call.forex_count, fn_call.commodity_count,
                              fn_call.etf_count, fn_call.indices_data,
                              fn_call.etf_asset_class_order))
    /\ UNCHANGED <<fn_call, sendVars, screenVars, runVars, mainVars>>

\* a change of h hundredths of a percent, as round(x, 2) leaves it
Hundredths(h) == [n |-> h, d |-> 100]

\* a result dict as the screen_* functions and sample_format_test build it
Result(symbol, extra, price, volume, changes, passes) ==
    extra @@
    [symbol         |-> symbol,
     price          |-> price,
     volume         |-> volume,
     one_day_pct    |-> changes[1],
     one_week_pct   |-> changes[2],
     one_month_pct  |-> changes[3],
     one_6m_pct     |-> changes[4],
     one_year_pct   |-> changes[5],
     three_year_pct |-> changes[6],
     passes_day     |-> passes[1],
     passes_week    |-> passes[2],
     passes_month   |-> passes[3]]

Named(name, sector) == [company_name |-> name, sector |-> sector]

Rising ==
    <<Hundredths(525), Hundredths(-100), None, Hundredths(1415), None, None>>

Falling ==
    <<Hundredths(-106), Hundredths(-531), Hundredths(-1270), None,
      Hundredths(0), Hundredths(20998)>>

Mixed ==
    <<Hundredths(5), Hundredths(1230), Hundredths(-1820), Hundredths(2000),
      Hundredths(8000), None>>

\* stocks: two sectors whose order differs with and without case, the
\* catch-all sector, names that differ in case, a name to escape, a dict
\* without company_name and one without sector
Apple == Result("AAPL", Named("Apple Inc.", "Technology"), 150, 1500000,
                Rising, <<TRUE, FALSE, FALSE>>)

Amazon == Result("AMZN", Named("amazon.com, Inc.", "Technology"), 141, 0,
                 Falling, <<FALSE, TRUE, TRUE>>)

Unnamed == Result("MSFT", [sector |-> "Technology"], 159, 100000,
                  Mixed, <<FALSE, TRUE, TRUE>>)

Att == Result("T", Named("AT&T Inc.", "Zeta"), 20, 50000,
              Falling, <<FALSE, FALSE, TRUE>>)

Berkshire == Result("BRK-B", Named("Berkshire Hathaway", "Other"), 159,
                    10000000, Mixed, <<TRUE, TRUE, TRUE>>)

Exxon == Result("XOM", Named("Exxon Mobil", "energy"), 141, 50000,
                Rising, <<TRUE, FALSE, FALSE>>)

Untagged == Result("ZZZ", [company_name |-> "Zed Co"], 6, 100000,
                   Rising, <<TRUE, FALSE, FALSE>>)

Alpha == Result("ALP", Named("Alpha Co", "Alpha"), 7, 100000,
                Mixed, <<FALSE, TRUE, FALSE>>)

Bitcoin == Result("BTC-USD", Named("Bitcoin", "Crypto"), 97500, 0,
                  Falling, <<FALSE, TRUE, FALSE>>)

Ethereum == Result("ETH-USD", Named("Ethereum", "Crypto"), 3450, 1200,
                   Rising, <<TRUE, FALSE, FALSE>>)

Gold == Result("GC=F", Named("Gold", "Commodities"), 2000, 1200,
               Mixed, <<FALSE, TRUE, TRUE>>)

Yen == Result("USDJPY=X", Named("US Dollar / Japanese Yen", "Forex"), 152, 0,
              Falling, <<FALSE, TRUE, TRUE>>)

Spy == Result("SPY", Named("SPDR S&P 500", "ETFs") @@ [asset_class |-> "Equity"],
              500, 1500000, Rising, <<TRUE, FALSE, FALSE>>)

Qqq == Result("QQQ", Named("Invesco QQQ", "ETFs") @@ [asset_class |-> "Equity"],
              400, 0, Falling, <<FALSE, TRUE, TRUE>>)

Tlt == Result("TLT", Named("iShares 20+ Year", "ETFs")
                         @@ [asset_class |-> "Fixed Income"],
              90, 100000, Mixed, <<FALSE, TRUE, FALSE>>)

Arkk == Result("ARKK", Named("ARK Innovation", "ETFs")
                           @@ [asset_class |-> "Thematic"],
               50, 50000, Rising, <<TRUE, FALSE, FALSE>>)

Bare == Result("XYZ", Named("Bare ETF", "ETFs"), 10, 50000,
               Mixed, <<TRUE, TRUE, TRUE>>)

\* the stocks, in some orders of the aggregate list
StockLists ==
    { <<>>,
      <<Apple>>,
      <<Att, Berkshire, Alpha>>,
      <<Berkshire, Exxon, Att, Untagged>>,
      <<Apple, Amazon, Unnamed>>,
      <<Unnamed, Amazon, Apple, Berkshire, Att>> }

\* the other instruments, in the order main concatenates them
OtherLists ==
    { <<>>,
      <<Bitcoin>>,
      <<Yen>>,
      <<Spy>>,
      <<Ethereum, Bitcoin, Yen, Gold>>,
      <<Bitcoin, Yen, Gold, Spy>>,
      <<Tlt, Spy, Arkk, Qqq, Bare>>,
      <<Bitcoin, Gold, Bare, Qqq, Spy>> }

\* etf_asset_class_order of config.yaml: absent, the default written out, a
\* list that omits classes, one that names a class twice
EtfOrders ==
    { <<>>,
      <<"Fixed Income", "Equity">>,
      <<"Thematic">>,
      <<"Equity", "Fixed Income", "Equity">> }

\* indices_data: none, or the S&P 500 and the VIX
IndexLists ==
    { <<>>,
      << [symbol |-> "^GSPC", name |-> "S&P 500", price |-> 6000,
          one_day_pct |-> Hundredths(-106), one_week_pct |-> None,
          one_month_pct |-> Hundredths(313), one_6m_pct |-> Hundredths(1415),
          one_year_pct |-> None, three_year_pct |-> None, is_vix |-> FALSE],
         [symbol |-> "^VIX", name |-> "VIX", price |-> 18,
          one_day_pct |-> Hundredths(525), one_week_pct |-> None,
          one_month_pct |-> None, one_6m_pct |-> Hundredths(-2000),
          one_year_pct |-> None, three_year_pct |-> None, is_vix |-> TRUE] >> }

\* the number of elements of seq whose sector is `sector`
CountOf(seq, sector) == Len(by_sector(seq, sector))

\* the calls of format_stock_message main makes: all_results is the stocks
\* followed by the other instruments, and the counts are their numbers
FormatCalls ==
    { [fn |-> "format_stock_message",
       results |-> stocks \o others,
       crypto_count |-> CountOf(others, "Crypto"),
       forex_count |-> CountOf(others, "Forex"),
       commodity_count |-> CountOf(others, "Commodities"),
       etf_count |-> CountOf(others, "ETFs"),
       indices_data |-> indices,
       etf_asset_class_order |-> order] :
        stocks \in StockLists, others \in OtherLists,
        indices \in IndexLists, order \in EtfOrders }

\* display names (longName, shortName or the symbol) the formatter escapes
DisplayNames ==
    { <<"A", "p", "p", "l", "e">>,
      <<"A", "T", "&", "T">>,
      <<"A", "<", "B", ">">>,
      <<"M", "a", "c", "y", "'", "s">>,
      <<"\"", "K", "\"", " ", "L", "i", "n", "e">>,
      <<"&", "l", "t", ";">>,
      <<"&", "a", "m", "p", ";", "C", "o">>,
      <<"<", "b", ">", "X", "<", "/", "b", ">">>,
      <<>> }

\* the plain-text retry of a chunk that holds one escaped display name
PlainFallback ==
    /\ fn_call.fn = "plain_fallback"
    /\ fn_ret = Pending
    /\ fn_ret' = Returned(_strip_html_to_plain(html_escape(fn_call.name)))
    /\ UNCHANGED <<fn_call, sendVars, screenVars, runVars, mainVars>>

FnCalls ==
    { [fn |-> "calculate_percent_change", data |-> d, days |-> n] :
        d \in FnSeries, n \in FnDays }
    \cup
    { [fn |-> "get_indices_snapshot", symbol |-> INDICES[i][1],
       name |-> INDICES[i][2], response |-> r] :
        i \in {1, 5}, r \in {Raised, Returned(<<>>)} \cup
                            { Returned(d) : d \in FnSeries } }
    \cup
    { [fn |-> "get_exchange_symbols", exchange |-> e, response |-> r] :
        e \in {"NASDAQ"},
        r \in {Raised, Returned(<<>>), Returned(NasdaqRows),
               Returned(SubSeq(NasdaqRows, 5, 6))} }
    \cup
    { [fn |-> "get_exchange_symbols", exchange |-> e, response |-> r] :
        e \in {"NYSE"},
        r \in {Raised, Returned(<<>>), Returned(NyseRows),
               Returned(SubSeq(NyseRows, 2, 3))} }
    \cup
    { [fn |-> "get_exchange_symbols", exchange |-> e, response |-> r] :
        e \in {"LSE", ""}, r \in {Raised, Returned(<<>>)} }
    \cup
    { [fn |-> "plain_fallback", name |-> s] : s \in DisplayNames }
    \cup
    FormatCalls

InitFn ==
    /\ fn_call \in FnCalls
    /\ fn_ret = Pending
    /\ SendIdle
    /\ ScreenIdle
    /\ RunIdle
    /\ MainIdle

NextFn ==
    \/ CalculatePercentChange
    \/ SnapshotIndex
    \/ GetExchangeSymbols
    \/ PlainFallback
    \/ FormatStockMessage

SpecFn == InitFn /\ [][NextFn]_vars

-----------------------------------------------------------------------------
(* Properties of calculate_percent_change and get_indices_snapshot,        *)
(* checked under SpecFn                                                    *)

PctCalled == fn_call.fn = "calculate_percent_change" /\ fn_ret # Pending

\* the close calculate_percent_change was asked to compare the last one with
PctReference == fn_call.data[Len(fn_call.data) - fn_call.days].Close

PctLatest == fn_call.data[Len(fn_call.data)].Close

\* C12: calculate_percent_change returns None for a series of fewer than
\* days + 1 rows and for a reference close of zero, and in every other case
\* the value 100 * (latest - reference) / reference.
C12_PercentChange ==
    PctCalled =>
        IF Len(fn_call.data) < fn_call.days + 1 THEN fn_ret = None
        ELSE IF PctReference = 0 THEN fn_ret = None
        ELSE /\ fn_ret # None
             /\ fn_ret.d # 0
             /\ fn_ret.n * PctReference
                    = 100 * (PctLatest - PctReference) * fn_ret.d

\* a call on a series long enough whose reference close is zero while the
\* latest close is not: it returned None
C12_Witness ==
    /\ PctCalled
    /\ Len(fn_call.data) >= fn_call.days + 1
    /\ PctReference = 0
    /\ PctLatest # 0
    /\ fn_ret = None

SnapshotGiven ==
    /\ fn_call.fn = "get_indices_snapshot"
    /\ fn_ret # Pending
    /\ fn_ret # None

\* what a screener computes on the series the snapshot was given
ScreenerChanges == Changes(fn_call.response.value)

\* no close of the series is zero, so that no division is by zero
NoZeroClose ==
    \A i \in 1..Len(fn_call.response.value) :
        fn_call.response.value[i].Close # 0

\* C14: on the same series (here one of at least five rows, the fewest a
\* screener computes on, and without a zero close) the snapshot holds the
\* six changes a screener computes: each is present exactly when the
\* screener's is, with the same value.
C14_SnapshotAsScreener ==
    SnapshotGiven /\ NoZeroClose /\ Len(fn_call.response.value) >= 5 =>
        /\ fn_ret.one_day_pct = Round2OrNone(ScreenerChanges.one_day)
        /\ fn_ret.one_week_pct = Round2OrNone(ScreenerChanges.one_week)
        /\ fn_ret.one_month_pct = Round2OrNone(ScreenerChanges.one_month)
        /\ fn_ret.one_6m_pct = Round2OrNone(ScreenerChanges.one_6m)
        /\ fn_ret.one_year_pct = Round2OrNone(ScreenerChanges.one_year)
        /\ fn_ret.three_year_pct = Round2OrNone(ScreenerChanges.three_year)

-----------------------------------------------------------------------------
(* main, run_screener.py: the whole run, from the index snapshot to the     *)
(* delivery of the two pages and the chart images                           *)

\* the variables of the screening that the rest of main only reads
runData ==
    <<run_config, stocks_only, exchange_idx, symbols, seen_symbols, results,
      crypto_results, forex_results, commodity_results, etf_results,
      all_results, scanned>>

\* a main that takes every run for a normal one
dry_run_Ignored == FALSE

\* config.get("dry_run", False)
dry_run == Get(run_config, "dry_run", FALSE)

\* (os.getenv("TELEGRAM_BOT_TOKEN") or "").strip()
token == strip(Get(environ, "TELEGRAM_BOT_TOKEN", <<>>))

\* (os.getenv("TELEGRAM_CHAT_ID") or "").strip()
chat_id == strip(Get(environ, "TELEGRAM_CHAT_ID", <<>>))

\* Path(path).write_text(content): the file is created or overwritten
write_text(fs, path, content) ==
    {f \in fs : f.path # path} \cup {[path |-> path, content |-> content]}

\* os.path.exists(path)
exists(fs, path) == \E f \in fs : f.path = path

\* os.remove(path)
remove(fs, path) == {f \in fs : f.path # path}

\* charts_dir / f"{symbol}_chart.png", charts_dir being "charts"
ChartPath(symbol) == "charts/" \o symbol \o "_chart.png"

\* generate_stock_chart: the path of the saved image, or None (here "", as
\* falsy as None is) when anything in its try block raised
generate_stock_chart(symbol, saved) ==
    IF saved THEN ChartPath(symbol) ELSE ""

\* whether drawing and saving the chart of a symbol can fail in the runs
\* explored
SaveOutcomes(symbol) ==
    IF symbol \in TrackedStocks THEN BOOLEAN ELSE {TRUE}

\* what a sendMediaGroup request comes to
MediaOutcomes == {"ok", "http", "transport"}

\* chart_paths = [chart_info["chart_path"] for chart_info in charts]
chart_paths == [i \in 1..Len(charts) |-> charts[i].chart_path]

\* the step of `range(0, len(photo_paths), 10)`
MediaGroupSize == 10

\* photo_paths[batch_start:batch_start + 10], batch_start counted from 1
batch_paths(photo_paths, batch_start) ==
    SubSeq(photo_paths, batch_start,
           Min(batch_start + MediaGroupSize - 1, Len(photo_paths)))

\* a main without the try around send_telegram_media_group
AfterMedia_Uncaught(outcome) ==
    IF outcome = "ok" THEN "media" ELSE "send_error"

\* where the run goes on after a sendMediaGroup request: the next batch, or,
\* the exception being caught by main's `except Exception`, the cleanup
AfterMedia(outcome) ==
    IF outcome = "ok" THEN "media" ELSE "cleanup"

\* a main that goes on to its next statement whether the call raised or not
AfterSend_IgnoreFailure(at, state) ==
    IF at = "send1" /\ message2 # <<>> THEN "send2" ELSE "charts"

\* where main goes on when a call of send_telegram_message ends: an
\* exception leaves main, a return leads to the next statement
AfterSend(at, state) ==
    IF state = "raised" THEN "send_error"
    ELSE IF at = "send1" /\ message2 # <<>> THEN "send2"
    ELSE "charts"

\* main, up to `indices_data = get_indices_snapshot()`
MainBegin ==
    /\ pc = "main"
    /\ pc' = IF stocks_only THEN "for_exchange" ELSE "indices"
    /\ idx' = 1
    /\ UNCHANGED <<runData, fetch_log, sendVars, screenVars, fnVars, mainVars>>

\* get_indices_snapshot: one iteration of `for symbol, name in INDICES`
IndicesItem ==
    /\ pc = "indices"
    /\ idx <= Len(INDICES)
    /\ \E response \in HistoryResponses(INDICES[idx][1]) :
         LET entry == IndexEntry(INDICES[idx][1], INDICES[idx][2], response)
         IN  /\ indices_data' = AppendIf(indices_data, entry)
             /\ fetch_log' = Append(fetch_log,
                        Fetched("get_indices_snapshot", INDICES[idx][1],
                                response, entry))
             /\ Catch(IF response.raised
                      THEN <<Failure("get_indices_snapshot",
                                     INDICES[idx][1])>>
                      ELSE <<>>)
    /\ idx' = idx + 1
    /\ UNCHANGED <<runData, pc, sendVars, screenVars, fnVars, environ,
                   message1, message2, files, charts, media_posts, market>>

\* get_indices_snapshot returns; main calls run_screener
IndicesReturn ==
    /\ pc = "indices"
    /\ idx > Len(INDICES)
    /\ pc' = "for_exchange"
    /\ UNCHANGED <<runData, idx, fetch_log, sendVars, screenVars, fnVars,
                   mainVars>>

\* main: `message1, message2 = format_stock_message(...)`, the pages being
\* some of `pages1` and `pages2`
FormatWith(pages1, pages2) ==
    /\ pc = "aggregated"
    /\ message1' \in pages1
    /\ message2' \in pages2
    /\ pc' = "formatted"
    /\ UNCHANGED <<runData, idx, fetch_log, sendVars, screenVars, fnVars,
                   environ, indices_data, files, charts, media_posts, market, caught, log>>

\* main: the `if dry_run:` branch
DryRun ==
    /\ pc = "formatted"
    /\ dry_run
    /\ files' =
         LET one == write_text(files, "sample_report_1.txt", message1)
         IN  IF message2 # <<>>
             THEN write_text(one, "sample_report_2.txt", message2)
             ELSE one
    /\ pc' = "done"
    /\ UNCHANGED <<runData, idx, fetch_log, sendVars, screenVars, fnVars,
                   environ, indices_data, message1, message2, charts,
                   media_posts, market, caught, log>>

\* main: the else branch up to `send_telegram_message(message1, ...)`
CheckCredentials ==
    /\ pc = "formatted"
    /\ ~dry_run
    /\ IF token = <<>> \/ chat_id = <<>>
       THEN /\ pc' = "config_error"
            /\ UNCHANGED sendVars
       ELSE /\ pc' = "send1"
            /\ page' = message1
            /\ text' = message1
            /\ chunk_count' = 0
            /\ send_state' = "running"
            /\ UNCHANGED posts
    /\ UNCHANGED <<runData, idx, fetch_log, screenVars, fnVars, mainVars>>

\* main: a call of send_telegram_message has ended
SendDone ==
    /\ pc \in {"send1", "send2"}
    /\ send_state \in {"returned", "raised"}
    /\ pc' = AfterSend(pc, send_state)
    /\ IF pc' = "send2"
       THEN /\ page' = message2
            /\ text' = message2
            /\ chunk_count' = 0
            /\ send_state' = "running"
            /\ UNCHANGED posts
       ELSE UNCHANGED sendVars
    /\ idx' = 1
    /\ UNCHANGED <<runData, fetch_log, screenVars, fnVars, mainVars>>

\* generate_charts_for_results: one iteration of `for stock in results`
GenerateChart ==
    /\ pc = "charts"
    /\ idx <= Len(all_results)
    /\ LET stock == all_results[idx]
           symbol == stock.symbol
       IN  \E response \in HistoryResponses(symbol),
              saved \in SaveOutcomes(symbol) :
             LET data == response.value
                 chart_path ==
                     IF response.raised \/ data = <<>> THEN ""
                     ELSE generate_stock_chart(symbol, saved)
             IN  /\ fetch_log' = Append(fetch_log,
                            Fetched("generate_charts_for_results", symbol,
                                    response, None))
                 /\ Catch(IF response.raised
                          THEN <<Failure("generate_charts_for_results",
                                         symbol)>>
                          ELSE IF data # <<>> /\ ~saved
                          THEN <<Failure("generate_stock_chart", symbol)>>
                          ELSE <<>>)
                 /\ IF chart_path = ""
                    THEN UNCHANGED <<charts, files>>
                    ELSE /\ charts' = Append(charts,
                                [symbol |-> symbol,
                                 company_name |-> stock.company_name,
                                 chart_path |-> chart_path])
                         /\ files' = write_text(files, chart_path, <<"PNG">>)
    /\ idx' = idx + 1
    /\ UNCHANGED <<runData, pc, sendVars, screenVars, fnVars, environ,
                   indices_data, message1, message2, media_posts, market>>

\* main: generate_charts_for_results has returned (or `if all_results:` was
\* false); `if charts:` then the call of send_telegram_media_group
ChartsReturn ==
    /\ pc = "charts"
    /\ idx > Len(all_results)
    /\ pc' = IF charts = <<>> THEN "done" ELSE "media"
    /\ idx' = 1
    /\ UNCHANGED <<runData, fetch_log, sendVars, screenVars, fnVars,
                   mainVars>>

\* send_telegram_media_group: one iteration of `for batch_start in range`;
\* an exception of it is caught by main's `except Exception`
SendMediaBatch ==
    /\ pc = "media"
    /\ idx <= Len(chart_paths)
    /\ LET batch == batch_paths(chart_paths, idx)
       IN  IF \E i \in 1..Len(batch) : ~exists(files, batch[i])
           THEN /\ pc' = "cleanup"
                /\ idx' = 1
                /\ UNCHANGED media_posts
                /\ Catch(<<Failure("main", "sendMediaGroup")>>)
           ELSE \E outcome \in MediaOutcomes :
                  /\ media_posts' = Append(media_posts,
                         [paths |-> batch, outcome |-> outcome])
                  /\ pc' = AfterMedia(outcome)
                  /\ Catch(IF outcome = "ok" THEN <<>>
                           ELSE <<Failure("main", "sendMediaGroup")>>)
                  /\ idx' = IF outcome = "ok" THEN idx + MediaGroupSize ELSE 1
    /\ UNCHANGED <<runData, fetch_log, sendVars, screenVars, fnVars, environ,
                   indices_data, message1, message2, files, charts, market>>

\* send_telegram_media_group returns
MediaReturn ==
    /\ pc = "media"
    /\ idx > Len(chart_paths)
    /\ pc' = "cleanup"
    /\ idx' = 1
    /\ UNCHANGED <<runData, fetch_log, sendVars, screenVars, fnVars,
                   mainVars>>

\* main: one iteration of `for chart_info in charts`; os.remove is taken to
\* succeed (its exception would be printed and the loop would go on)
RemoveChart ==
    /\ pc = "cleanup"
    /\ idx <= Len(charts)
    /\ files' = IF exists(files, charts[idx].chart_path)
                THEN remove(files, charts[idx].chart_path)
                ELSE files
    /\ idx' = idx + 1
    /\ UNCHANGED <<runData, pc, fetch_log, sendVars, screenVars, fnVars,
                   environ, indices_data, message1, message2, charts,
                   media_posts, market, caught, log>>

\* main returns
MainReturn ==
    /\ pc = "cleanup"
    /\ idx > Len(charts)
    /\ pc' = "done"
    /\ UNCHANGED <<runData, idx, fetch_log, sendVars, screenVars, fnVars,
                   mainVars>>

\* config.yaml of a normal run: one exchange, a crypto list long enough for
\* a second batch of chart images, one entry in each other list
MainConfig ==
    ConfigDefaults @@
    [exchanges   |-> <<"NASDAQ">>,
     crypto      |-> << [plain |-> "BTC-USD"], [plain |-> "ETH-USD"],
                        [plain |-> "SOL-USD"], [plain |-> "XRP-USD"],
                        [plain |-> "ADA-USD"], [plain |-> "DOGE-USD"],
                        [plain |-> "DOT-USD"], [plain |-> "LTC-USD"],
                        [plain |-> "BNB-USD"] >>,
     forex       |-> << [plain |-> "EURUSD=X"] >>,
     commodities |-> << [symbol |-> "NG=F", name |-> "Natural Gas"] >>,
     etfs        |-> << [symbol |-> "SPY", name |-> "SPDR S&P 500",
                         asset_class |-> "Equity"] >>]

\* the same with `dry_run: true`
MainConfigDryRun == [dry_run |-> TRUE] @@ MainConfig

MainConfigs == {MainConfig, MainConfigDryRun}

\* os.environ: both credentials, no token, a blank chat id
EnvBoth ==
    [TELEGRAM_BOT_TOKEN |-> <<"1", ":", "k">>,
     TELEGRAM_CHAT_ID   |-> <<"-", "4", "2">>]

EnvNoToken == [TELEGRAM_CHAT_ID |-> <<"-", "4", "2">>]

EnvBlankChat ==
    [TELEGRAM_BOT_TOKEN |-> <<"1", ":", "k">>, TELEGRAM_CHAT_ID |-> <<" ">>]

Environs == {EnvBoth, EnvNoToken, EnvBlankChat}

\* the pages format_stock_message gives: a first page of one chunk or of
\* two, and a second page that is empty or one chunk
PageOne == <<"<", "b", ">", "U", "p", "<", "/", "b", ">">>

PageOneLong == Fill(max_len) \o <<NL>> \o PageOne

PageTwo == <<"<", "i", ">", "F", "x", "<", "/", "i", ">">>

FirstPages == {PageOne, PageOneLong}

SecondPages == {<<>>, PageTwo}

Format == FormatWith(FirstPages, SecondPages)

\* main is entered: config.yaml and the environment are read, nothing has
\* been fetched
InitMain ==
    /\ run_config \in MainConfigs
    /\ stocks_only \in BOOLEAN
    /\ environ \in Environs
    /\ market = "steady"
    /\ pc = "main"
    /\ exchange_idx = 1
    /\ symbols = <<>>
    /\ idx = 0
    /\ seen_symbols = {}
    /\ results = <<>>
    /\ crypto_results = <<>>
    /\ forex_results = <<>>
    /\ commodity_results = <<>>
    /\ etf_results = <<>>
    /\ all_results = <<>>
    /\ scanned = <<>>
    /\ fetch_log = <<>>
    /\ indices_data = <<>>
    /\ message1 = <<>>
    /\ message2 = <<>>
    /\ files = {}
    /\ charts = <<>>
    /\ media_posts = <<>>
    /\ caught = <<>>
    /\ log = <<>>
    /\ SendIdle
    /\ ScreenIdle
    /\ FnIdle

\* the steps of main after its screening
Deliver ==
    \/ DryRun
    \/ CheckCredentials
    \/ SendChunk
    \/ SendReturn
    \/ SendDone
    \/ GenerateChart
    \/ ChartsReturn
    \/ SendMediaBatch
    \/ MediaReturn
    \/ RemoveChart
    \/ MainReturn

NextMain ==
    \/ MainBegin
    \/ IndicesItem
    \/ IndicesReturn
    \/ NextRun
    \/ Format
    \/ Deliver

SpecMain == InitMain /\ [][NextMain]_vars

\* the same run; main, a sequential program, always takes its next step
SpecMainFair == SpecMain /\ WF_vars(NextMain)

-----------------------------------------------------------------------------
(* Properties of the whole run                                              *)

\* main has returned or an exception has left it
RunEnded == pc \in {"done", "config_error", "send_error"}

\* the chunks `while text:` cuts a page into, in order
RECURSIVE ChunksOf(_)
ChunksOf(t) ==
    IF t = <<>> THEN <<>>
    ELSE <<Clip(Cut(t).chunk)>> \o ChunksOf(Cut(t).rest)

\* every chunk of page one, then every chunk of page two
FullChunks == ChunksOf(message1) \o ChunksOf(message2)

\* a request of a text chunk ended in a timeout or a connection error
TransportFailed ==
    \E i \in 1..Len(posts) : posts[i].outcome = "transport"

\* C16: a timeout or transport error on one text chunk does not abort the
\* run: when the run has ended, no exception has left main because of it and
\* the remaining chunks of the page and the second page were all attempted.
C16_TransportErrorContained ==
    (RunEnded /\ TransportFailed) =>
        /\ pc = "done"
        /\ Chunks = FullChunks

\* `not token or not chat_id`
CredentialsMissing == token = <<>> \/ chat_id = <<>>

\* C17: in a run that is not a dry run and lacks a transport credential, no
\* work is ever done: no universe is listed, no index or price series is
\* fetched, nothing is screened, and no message or image is sent.
C17_ConfigErrorBeforeWork ==
    (~dry_run /\ CredentialsMissing) =>
        /\ scanned = <<>>
        /\ fetch_log = <<>>
        /\ results = <<>>
        /\ posts = <<>>
        /\ media_posts = <<>>

\* config.yaml says `dry_run: true`
DryRunConfigured == "dry_run" \in DOMAIN run_config /\ run_config.dry_run

\* the files a dry run leaves once it has ended
ReportFiles ==
    {[path |-> "sample_report_1.txt", content |-> message1]}
    \cup (IF message2 # <<>>
          THEN {[path |-> "sample_report_2.txt", content |-> message2]}
          ELSE {})

\* C18: in a dry run the messaging endpoint is never called (no text chunk,
\* no image batch), no chart is generated or fetched for, no exception
\* leaves main whatever the credentials are, and when the run has ended the
\* formatted pages are the files on disk (the second only if it is not
\* empty).
C18_DryRunSendsNothing ==
    DryRunConfigured =>
        /\ posts = <<>>
        /\ media_posts = <<>>
        /\ send_state = "idle"
        /\ charts = <<>>
        /\ \A i \in 1..Len(fetch_log) :
              fetch_log[i].fn # "generate_charts_for_results"
        /\ pc \notin {"config_error", "send_error"}
        /\ files = IF RunEnded THEN ReportFiles ELSE {}

\* C18 witness: a dry run without a bot token has ended and left both pages
\* on disk, after screening found results
C18_Witness ==
    /\ DryRunConfigured
    /\ CredentialsMissing
    /\ pc = "done"
    /\ all_results # <<>>
    /\ message2 # <<>>
    /\ exists(files, "sample_report_1.txt")
    /\ exists(files, "sample_report_2.txt")

\* the positions in `posts` of the first request of each chunk
HtmlIdx == {i \in 1..Len(posts) : posts[i].parse_mode = "HTML"}

\* the chunk first requested at position i was delivered, as markup or,
\* after the entity error, as plain text
DeliveredPost(i) ==
    \/ posts[i].outcome = "ok"
    \/ /\ posts[i].outcome = "entities"
       /\ i < Len(posts)
       /\ posts[i + 1].parse_mode = "none"
       /\ posts[i + 1].text = _strip_html_to_plain(posts[i].text)
       /\ posts[i + 1].outcome = "ok"

\* C19: on a normal run the chunks requested so far are a prefix of the
\* chunks of page one followed by the chunks of page two; a chunk is
\* requested only after every earlier chunk was delivered, as markup or as
\* plain text; an image batch is requested only after every chunk of both
\* pages was delivered; and once a chunk has finally failed it stays the last
\* request: no later chunk, no chart and no image batch follows.
C19_DeliveredInOrder ==
    /\ Len(Chunks) <= Len(FullChunks)
    /\ \A k \in 1..Len(Chunks) : Chunks[k] = FullChunks[k]
    /\ \A i \in HtmlIdx :
          (\E j \in HtmlIdx : j > i) => DeliveredPost(i)
    /\ (media_posts # <<>> \/ charts # <<>>) =>
          /\ Len(Chunks) = Len(FullChunks)
          /\ \A i \in HtmlIdx : DeliveredPost(i)
    /\ \A i \in HtmlIdx :
          ~DeliveredPost(i) =>
             /\ pc \in {"send1", "send2", "send_error"}
             /\ send_state = "raised"
             /\ media_posts = <<>>
             /\ charts = <<>>

\* C19 witness: a first page of two chunks, the first of them delivered as
\* plain text after the entity error, then the second page, then two image
\* batches, and main has returned
C19_Witness ==
    /\ pc = "done"
    /\ Len(ChunksOf(message1)) = 2
    /\ message2 # <<>>
    /\ Len(Chunks) = 3
    /\ posts[1].outcome = "entities"
    /\ Len(posts) = 4
    /\ Len(media_posts) = 2

\* the chart images on disk
ChartFiles ==
    {f \in files :
        f.path \notin {"sample_report_1.txt", "sample_report_2.txt"}}

\* a sendMediaGroup request failed
MediaFailed ==
    \E i \in 1..Len(media_posts) : media_posts[i].outcome # "ok"

-----------------------------------------------------------------------------
(* Properties of get_exchange_symbols, checked under SpecFn                *)

SymbolsGot == fn_call.fn = "get_exchange_symbols" /\ fn_ret # Pending

\* the symbols of the rows of the directory file that are common stock of
\* the exchange, each once, in file order; none when the request failed
Universe ==
    IF fn_call.response.raised \/ fn_call.exchange \notin {"NASDAQ", "NYSE"}
    THEN <<>>
    ELSE LET rows == fn_call.response.value
             kept == IF fn_call.exchange = "NASDAQ"
                     THEN SelectSeq(rows, NasdaqRowKept)
                     ELSE SelectSeq(rows, OtherRowKept)
             syms == [i \in 1..Len(kept) |->
                         IF fn_call.exchange = "NASDAQ" THEN kept[i].symbol
                         ELSE OtherRowSymbol(kept[i])]
         IN  SelectSeq([i \in 1..Len(syms) |->
                           [at |-> i, symbol |-> syms[i]]],
                       LAMBDA e : \A j \in 1..(e.at - 1) :
                                     syms[j] # e.symbol)

\* C24: get_exchange_symbols always returns a list: the universe listing of
\* the exchange, unchanged, when that listing is not empty, and the built-in
\* list of the exchange when the listing is empty or its retrieval failed.
C24_ListingOrFallback ==
    SymbolsGot =>
        IF Universe # <<>>
        THEN /\ Len(fn_ret) = Len(Universe)
             /\ \A i \in 1..Len(fn_ret) : fn_ret[i] = Universe[i].symbol
        ELSE fn_ret = _fallback_exchange_symbols(fn_call.exchange)

\* C24 witness: the NYSE directory request failed and the 68 built-in NYSE
\* symbols came back
C24_Witness ==
    /\ SymbolsGot
    /\ fn_call.exchange = "NYSE"
    /\ fn_call.response.raised
    /\ Len(fn_ret) = 68
    /\ fn_ret[8] = "JPM"

-----------------------------------------------------------------------------
(* Properties of the error handling of a run, checked under SpecRun        *)

\* C25: no error is silently lost: every failure an except clause of the
\* pipeline caught so far (price-series fetch, universe listing, instrument
\* metadata, index fetch, chunk rejection, image send) has its line among
\* the lines printed so far, in the order the failures happened.
C25_EveryCaughtErrorLogged == log = caught

-----------------------------------------------------------------------------
(* Properties of the cut rules of send_telegram_message, checked under     *)
(* SpecSend                                                                *)

\* the entities html.escape writes
Entities ==
    { <<"&", "a", "m", "p", ";">>, <<"&", "l", "t", ";">>,
      <<"&", "g", "t", ";">>, <<"&", "q", "u", "o", "t", ";">>,
      <<"&", "#", "x", "2", "7", ";">> }

\* a ends with the first j characters of entity e and b starts with the rest
SplitsEntity(a, b) ==
    \E e \in Entities : \E j \in 1..(Len(e) - 1) :
        /\ Len(a) >= j
        /\ Len(b) >= Len(e) - j
        /\ SubSeq(a, Len(a) - j + 1, Len(a)) = SubSeq(e, 1, j)
        /\ SubSeq(b, 1, Len(e) - j) = SubSeq(e, j + 1, Len(e))

\* what follows chunk k: the next chunk, or the text still to be cut
AfterChunk(k) == IF k < Len(Chunks) THEN Chunks[k + 1] ELSE text

\* an entity of the page starts at 0-based offset s and the offset max_len
\* lies inside it
StraddlesMax(s) ==
    \E e \in Entities :
        /\ s < max_len
        /\ max_len < s + Len(e)
        /\ s + Len(e) <= Len(page)
        /\ OccursAt(page, e, s + 1)

\* C26: no cut falls inside an entity: no chunk ends with the beginning of
\* an entity that what follows the chunk completes; and when the first
\* max_len characters of the page hold no newline past the midpoint and an
\* entity straddles offset max_len, the first chunk ends just before that
\* entity's '&' and the entity starts the second chunk whole.
C26_NoCutInsideEntity ==
    /\ \A k \in 1..Len(Chunks) : ~SplitsEntity(Chunks[k], AfterChunk(k))
    /\ \A s \in (max_len - 5)..(max_len - 1) :
          ( /\ Len(Chunks) >= 1
            /\ StraddlesMax(s)
            /\ RFind(Slice(page, 0, max_len), NL) <= max_len \div 2 )
          => /\ Len(Chunks[1]) = s
             /\ \E e \in Entities :
                   /\ Len(AfterChunk(1)) >= Len(e)
                   /\ SubSeq(AfterChunk(1), 1, Len(e)) = e

\* C26 witness: an apostrophe entity begins two characters before offset
\* max_len; the first chunk stops before its '&' and the second chunk
\* starts with the whole entity
C26_Witness ==
    /\ Len(Chunks) >= 2
    /\ Chunks[1] = Fill(max_len - 2)
    /\ Len(Chunks[2]) >= 6
    /\ SubSeq(Chunks[2], 1, 6) = Apos

\* the 1-based positions of the newlines of the page
NewlinePositions == {i \in 1..Len(page) : page[i] = NL}

\* every line of the page, its newline included, has fewer than
\* max_len \div 2 = 1998 characters
LinesShort ==
    \A a \in NewlinePositions \cup {0} :
        LET later == {b \in NewlinePositions : b > a}
            stop == IF later = {} THEN Len(page)
                    ELSE CHOOSE b \in later : \A c \in later : b <= c
        IN  stop - a < max_len \div 2

\* chunk k is not the last one: another chunk or more text follows it
NotLast(k) == k < Len(Chunks) \/ text # <<>>

EndsWithNewline(c) == c # <<>> /\ c[Len(c)] = NL

\* the step cut a chunk from a text longer than max_len: by the newline rule
\* if and only if the last newline of text[:max_len] lies past the midpoint,
\* and otherwise before the last '&' or at max_len
CutByRule ==
    (chunk_count' = chunk_count + 1 /\ Len(text) > max_len) =>
        LET window == Slice(text, 0, max_len)
            last_newline == RFind(window, NL)
            sent == Chunks'[Len(Chunks')]
        IN  IF last_newline > max_len \div 2
            THEN sent = Slice(text, 0, last_newline + 1)
            ELSE /\ Len(sent) \in {max_len, RFind(window, "&")}
                 /\ sent = Slice(text, 0, Len(sent))

\* C27: on a page all of whose lines are shorter than half of max_len,
\* every chunk but the last ends with a newline, so every chunk is made of
\* whole lines; and on every page a cut is made after the last newline of
\* the candidate chunk exactly when that newline lies past the midpoint, and
\* is a hard cut (at max_len or before the last '&') otherwise.
C27_ShortLinesCutAtNewlines ==
    /\ [](\A k \in 1..Len(Chunks) :
             (NotLast(k) /\ ~EndsWithNewline(Chunks[k])) => ~LinesShort)
    /\ [][CutByRule]_vars

\* C27 witness: a page of short lines, longer than max_len, went out in two
\* chunks or more, the first of them ending with a newline
C27_Witness ==
    /\ send_state = "returned"
    /\ Len(Chunks) >= 2
    /\ Len(page) > max_len
    /\ EndsWithNewline(Chunks[1])
    /\ LinesShort

\* C28: the loop of send_telegram_message terminates on every text: the
\* call returns or raises; every chunk sent is non-empty; every iteration
\* leaves the remaining text strictly shorter, so the number of chunks never
\* exceeds the number of characters consumed, which is at most the length
\* of the text; and for the empty text nothing is sent.
C28_ChunkingTerminates ==
    /\ <>(send_state \in {"returned", "raised"})
    /\ [](\A k \in 1..Len(Chunks) : Chunks[k] # <<>>)
    /\ [](chunk_count <= Len(page) - Len(text))
    /\ [](page = <<>> => posts = <<>>)
    /\ [][chunk_count' = chunk_count + 1 => Len(text') < Len(text)]_vars

\* C28 witness: a text of more than twice max_len was cut into three chunks
\* and the call returned
C28_Witness ==
    /\ send_state = "returned"
    /\ chunk_count = 3
    /\ Len(page) > 2 * max_len
    /\ text = <<>>

-----------------------------------------------------------------------------
(* The plain-text fallback against the formatter's escaping, checked under *)
(* SpecFn                                                                  *)

FallbackCalled == fn_call.fn = "plain_fallback" /\ fn_ret # Pending

\* C29: the plain-text fallback inverts the escaping of the formatter: for
\* every display name s, _strip_html_to_plain(html.escape(s)) is s again.
C29_FallbackInvertsEscape == FallbackCalled => fn_ret.value = fn_call.name

-----------------------------------------------------------------------------
(* Properties of format_stock_message, read off the two messages it        *)
(* returns, checked under SpecFn                                           *)

FormatCalled == fn_call.fn = "format_stock_message" /\ fn_ret # Pending

PageOneText == fn_ret.value[1]

PageTwoText == fn_ret.value[2]

\* the places where pat begins in the string s
Occurrences(s, pat) ==
    { i \in 1..(Len(s) - Len(pat) + 1) : SubSeq(s, i, i + Len(pat) - 1) = pat }

\* the first place where pat begins in s, 0 when there is none
Find(s, pat) ==
    IF Occurrences(s, pat) = {} THEN 0
    ELSE CHOOSE i \in Occurrences(s, pat) : \A j \in Occurrences(s, pat) : i <= j

Contains(s, pat) == Occurrences(s, pat) # {}

\* the end of an instrument's name line, which holds its symbol
NameTag(r) == " (" \o r.symbol \o ")</b>"

\* where the instrument r is rendered on a page, 0 when it is not
Pos(msg, r) == Find(msg, NameTag(r))

\* the line of a sector or asset class
SubHeader(tag) == "  <b>" \o Bullet \o " " \o tag \o "</b>\n"

\* the line of a section
Header(emoji, title) == "<b>" \o emoji \o " " \o title \o "</b>\n"

SectorOf(r) == Get(r, "sector", "Other")

\* whether the record is a stock: its sector is none of the four sections
\* of the other instruments
IsStock(r) == SectorOf(r) \notin {"Crypto", "Commodities", "Forex", "ETFs"}

Given == fn_call.results

\* the line under the name line of r: its changes
ChangeLine(msg, r) ==
    LET ends == { i \in Pos(msg, r)..Len(msg) : SubSeq(msg, i, i) = NL }
                    \cup {Len(msg) + 1, Len(msg) + 2}
        e1 == CHOOSE i \in ends : \A j \in ends : i <= j
        e2 == CHOOSE i \in ends \ {e1} : \A j \in ends \ {e1} : i <= j
    IN  SubSeq(msg, e1 + 1, e2 - 1)

\* C21: the stock sectors are emitted in case-insensitive alphabetical
\* order with "Other" last, each once, and within a sector the instruments
\* are in case-insensitive order of their display name, the symbol when
\* the record has no company_name.
C21_SectorsAndNamesOrdered ==
    FormatCalled =>
        \A i, j \in 1..Len(Given) :
            (IsStock(Given[i]) /\ IsStock(Given[j])) =>
                LET a == SectorOf(Given[i])
                    b == SectorOf(Given[j])
                    ha == Find(PageOneText, SubHeader(a))
                    hb == Find(PageOneText, SubHeader(b))
                    pi == Pos(PageOneText, Given[i])
                    pj == Pos(PageOneText, Given[j])
                IN  /\ Cardinality(Occurrences(PageOneText, SubHeader(a))) = 1
                    /\ ha < pi
                    /\ (a # b /\ ha < hb) => pi < hb
                    /\ (a # "Other" /\ b = "Other") => ha < hb
                    /\ (a # "Other" /\ b # "Other"
                           /\ StrLess(upper(a), upper(b))) => ha < hb
                    /\ (a = b /\ StrLess(upper(company_name(Given[i])),
                                         upper(company_name(Given[j]))))
                           => pi < pj

\* C21 witness: the sectors Zeta, Other and Alpha came out as Alpha, Zeta,
\* Other
C21_Witness ==
    /\ FormatCalled
    /\ Len(Given) = 3
    /\ {SectorOf(Given[i]) : i \in 1..3} = {"Zeta", "Other", "Alpha"}
    /\ Find(PageOneText, SubHeader("Alpha")) > 0
    /\ Find(PageOneText, SubHeader("Alpha"))
           < Find(PageOneText, SubHeader("Zeta"))
    /\ Find(PageOneText, SubHeader("Zeta"))
           < Find(PageOneText, SubHeader("Other"))

\* the page that renders the record
PageOf(r) == IF Pos(PageOneText, r) > 0 THEN PageOneText ELSE PageTwoText

\* how one horizon of a record is rendered in its line of changes: the
\* figure is there, emphasized exactly when the flag is set, and the dash
\* stands exactly for a value that is None
HorizonRendered(line, label, pct, passes) ==
    /\ Contains(line, label \o ": ")
    /\ Contains(line, "<b>" \o label \o ": ") <=> passes
    /\ Contains(line, label \o ": " \o EmDash) <=> pct = None
    /\ pct # None =>
           Contains(line, IF passes
                          THEN "<b>" \o label \o ": " \o Signed2(pct) \o "%</b>"
                          ELSE label \o ": " \o Signed2(pct) \o "%")

\* C22: for every record, in every section, each of the 1-day, 1-week and
\* 1-month figures is bold if and only if the horizon's pass flag is true,
\* and a value that is None is rendered as the dash, never left out.
C22_BoldIffPasses ==
    FormatCalled =>
        \A i \in 1..Len(Given) :
            LET r == Given[i]
                line == ChangeLine(PageOf(r), r)
            IN  /\ Pos(PageOf(r), r) > 0
                /\ HorizonRendered(line, "1D", r.one_day_pct, r.passes_day)
                /\ HorizonRendered(line, "1W", r.one_week_pct, r.passes_week)
                /\ HorizonRendered(line, "1M", Get(r, "one_month_pct", None),
                                   Get(r, "passes_month", FALSE))

\* C22 witness: a stock on page one and an ETF on page two, each with one
\* bold figure, one plain figure and, for the stock, the dash
C22_Witness ==
    /\ FormatCalled
    /\ \E i, j \in 1..Len(Given) :
          /\ Given[i].symbol = "AAPL"
          /\ Given[j].symbol = "TLT"
          /\ ChangeLine(PageOneText, Given[i])
                = "  <b>1D: +5.25%</b> | 1W: -1.00% | 1M: ~ | 6M: +14.15% | 1Y: ~ | 3Y: ~"
          /\ Contains(ChangeLine(PageTwoText, Given[j]),
                      "1D: +0.05% | <b>1W: +12.30%</b> | 1M: -18.20%")

\* the four sections of page two, in their order
Sections ==
    <<Header(SECTION_EMOJI.Crypto, "Crypto"),
      Header(SECTION_EMOJI.Commodities, "Commodities"),
      Header(SECTION_EMOJI.Forex, "Forex"),
      Header(EMOJI_ETFS, "ETFs")>>

SectionTags == <<"Crypto", "Commodities", "Forex", "ETFs">>

\* whether a record of the section is given
Filled(k) == \E i \in 1..Len(Given) : SectorOf(Given[i]) = SectionTags[k]

C30_EveryRecordOnce ==
    FormatCalled =>
        \A i \in 1..Len(Given) :
            Cardinality(Occurrences(PageOneText, NameTag(Given[i])))
                + Cardinality(Occurrences(PageTwoText, NameTag(Given[i]))) = 1


=============================================================================
